---- MODULE Spec2Model ----
(***************************************************************************)
(* A model of the WebXR world switcher's IK arm demo (IKArmWorld, its CCD  *)
(* inverse-kinematics loop) and of the Range/CORS video server.            *)
(*                                                                         *)
(* Numbers.  The arm's code works on IEEE doubles; the model works on      *)
(* fixed-point integers, one unit being 1/Scale scene units (or radians,   *)
(* or quaternion units).  Every arithmetic step of the code is one         *)
(* arithmetic step of the model, rounded to the nearest unit, so model and *)
(* code agree up to a few units per step.  Thresholds the code sets below  *)
(* the model's resolution (1e-6, Number.EPSILON) are compared exactly as   *)
(* written, which makes them "the value rounds to zero".                   *)
(***************************************************************************)
EXTENDS Integers, Sequences, FiniteSets, TLC

\* ------------------------------------------------------------------ bounds

\* Fixed-point resolution: units per 1.0.
Scale == 10 ^ 4

\* How many update() calls (rendered frames) a behaviour holds.
MaxFrames == 5

\* How many times the user places the target (gizmo drag or Reset button).
MaxMoves == 1

\* ------------------------------------------------------ fixed-point numbers

\* The element of a one-element set.  { e(x) : x \in {v} } gives x the value
\* of v, computed once, as an assignment to a local does.
The(S) == CHOOSE x \in S : TRUE

Abs(x) == IF x < 0 THEN -x ELSE x

Min(a, b) == IF a <= b THEN a ELSE b

\* a / b rounded to the nearest integer (b > 0).
RDiv(a, b) == (2 * a + b) \div (2 * b)

\* The product of two fixed-point numbers.
MulS(a, b) == RDiv(a * b, Scale)

RECURSIVE SqrtBisect(_, _, _)
\* The largest r in lo..hi-1 with r*r <= n (lo*lo <= n < hi*hi).
SqrtBisect(n, lo, hi) ==
    IF hi - lo <= 1 THEN lo
    ELSE LET mid == (lo + hi) \div 2
         IN  IF mid * mid <= n THEN SqrtBisect(n, mid, hi)
                               ELSE SqrtBisect(n, lo, mid)

\* Math.sqrt on an integer, rounded to the nearest integer.
Sqrt(n) ==
    LET r == SqrtBisect(n, 0, 46341)
    IN  IF n - r * r > r THEN r + 1 ELSE r

\* Math.cos(x), x in 0..pi/2, by its Taylor series.
CosFx(x) ==
    LET x2 == MulS(x, x)
        t1 == RDiv(Scale * x2, Scale * 2)
        t2 == RDiv(t1 * x2, Scale * 12)
        t3 == RDiv(t2 * x2, Scale * 30)
        t4 == RDiv(t3 * x2, Scale * 56)
        t5 == RDiv(t4 * x2, Scale * 90)
        t6 == RDiv(t5 * x2, Scale * 132)
    IN  Scale - t1 + t2 - t3 + t4 - t5 + t6

\* Math.sin(x), x in 0..pi/2, by its Taylor series.
SinFx(x) ==
    LET x2 == MulS(x, x)
        t1 == RDiv(x * x2, Scale * 6)
        t2 == RDiv(t1 * x2, Scale * 20)
        t3 == RDiv(t2 * x2, Scale * 42)
        t4 == RDiv(t3 * x2, Scale * 72)
        t5 == RDiv(t4 * x2, Scale * 110)
    IN  x - t1 + t2 - t3 + t4 - t5

\* Math.PI / 2 in fixed point.
HalfPi == RDiv(31416 * (Scale \div 10000), 2)

RECURSIVE AcosBisect(_, _, _)
\* The least a in lo+1..hi with cos(a) <= w (cos(lo) > w >= cos(hi)).
AcosBisect(w, lo, hi) ==
    IF hi - lo <= 1 THEN hi
    ELSE LET mid == (lo + hi) \div 2
         IN  IF CosFx(mid) <= w THEN AcosBisect(w, lo, mid)
                                ELSE AcosBisect(w, mid, hi)

\* Math.acos(w) for w in 0..1.
AcosFx(w) == IF w >= Scale THEN 0 ELSE AcosBisect(w, 0, HalfPi)

\* ----------------------------------------------- THREE.Vector3 / Quaternion

VAdd(a, b) == <<a[1] + b[1], a[2] + b[2], a[3] + b[3]>>

VSub(a, b) == <<a[1] - b[1], a[2] - b[2], a[3] - b[3]>>

VDot(a, b) == RDiv(a[1] * b[1] + a[2] * b[2] + a[3] * b[3], Scale)

\* Vector3.length()
VLength(a) == Sqrt(a[1] * a[1] + a[2] * a[2] + a[3] * a[3])

\* Vector3.divideScalar(s)
VDivideScalar(a, s) ==
    <<RDiv(a[1] * Scale, s), RDiv(a[2] * Scale, s), RDiv(a[3] * Scale, s)>>

\* Vector3.normalize(): divideScalar(length() || 1)
VNormalize(a) == LET l == VLength(a) IN IF l = 0 THEN a ELSE VDivideScalar(a, l)

\* Vector3.distanceTo(b)
VDistance(a, b) == VLength(VSub(a, b))

\* The identity quaternion (x, y, z, w).
QIdent == <<0, 0, 0, Scale>>

\* Quaternion.multiplyQuaternions(a, b)
QMul(a, b) ==
    << RDiv(a[1] * b[4] + a[4] * b[1] + a[2] * b[3] - a[3] * b[2], Scale),
       RDiv(a[2] * b[4] + a[4] * b[2] + a[3] * b[1] - a[1] * b[3], Scale),
       RDiv(a[3] * b[4] + a[4] * b[3] + a[1] * b[2] - a[2] * b[1], Scale),
       RDiv(a[4] * b[4] - a[1] * b[1] - a[2] * b[2] - a[3] * b[3], Scale) >>

\* Quaternion.length()
QLength(q) == Sqrt(q[1] * q[1] + q[2] * q[2] + q[3] * q[3] + q[4] * q[4])

\* Quaternion.normalize(): the identity when the length is 0.
QNormalize(q) ==
    LET l == QLength(q)
    IN  IF l = 0 THEN QIdent
        ELSE << RDiv(q[1] * Scale, l), RDiv(q[2] * Scale, l),
                RDiv(q[3] * Scale, l), RDiv(q[4] * Scale, l) >>

\* Vector3.applyQuaternion(q): v rotated by q.
QRot(q, v) ==
    LET tx == RDiv(2 * (q[2] * v[3] - q[3] * v[2]), Scale)
        ty == RDiv(2 * (q[3] * v[1] - q[1] * v[3]), Scale)
        tz == RDiv(2 * (q[1] * v[2] - q[2] * v[1]), Scale)
    IN  << v[1] + RDiv(q[4] * tx + q[2] * tz - q[3] * ty, Scale),
           v[2] + RDiv(q[4] * ty + q[3] * tx - q[1] * tz, Scale),
           v[3] + RDiv(q[4] * tz + q[1] * ty - q[2] * tx, Scale) >>

\* Quaternion.setFromUnitVectors(vFrom, vTo): the shortest arc from vFrom to
\* vTo; for opposite vectors (r < Number.EPSILON) a half turn about an axis
\* perpendicular to vFrom.
SetFromUnitVectors(vFrom, vTo) ==
    LET r == VDot(vFrom, vTo) + Scale
    IN  IF r < 1
        THEN IF Abs(vFrom[1]) > Abs(vFrom[3])
             THEN QNormalize(<<-vFrom[2], vFrom[1], 0, 0>>)
             ELSE QNormalize(<<0, -vFrom[3], vFrom[2], 0>>)
        ELSE QNormalize(<< RDiv(vFrom[2] * vTo[3] - vFrom[3] * vTo[2], Scale),
                           RDiv(vFrom[3] * vTo[1] - vFrom[1] * vTo[3], Scale),
                           RDiv(vFrom[1] * vTo[2] - vFrom[2] * vTo[1], Scale),
                           r >>)

\* Quaternion.setFromAxisAngle(axis, angle)
SetFromAxisAngle(axis, angle) ==
    LET half == RDiv(angle, 2)
        s    == SinFx(half)
    IN  <<MulS(axis[1], s), MulS(axis[2], s), MulS(axis[3], s), CosFx(half)>>

\* ---------------------------------------------------- IKArmWorld: constants

\* Arm in front of the camera.
ARM_Z == -8000

\* Link dimensions <<width, height, depth>>; height runs along local Y.
BASE_SIZE == <<5000, 3000, 5000>>

LINK1_SIZE == <<2000, 5000, 2000>>

LINK2_SIZE == <<1800, 4500, 1800>>

LINK3_SIZE == <<1600, 4000, 1600>>

LINK4_SIZE == <<1400, 3000, 1400>>

CCD_ITERATIONS == 4

\* Math.PI / 2: the per-step clamp.
CCD_MAX_ANGLE == HalfPi

\* 0.45, in hundredths.
CCD_DAMPING == 45

XR_STAGE_OFFSET == <<0, -3000, -25000>>

XR_NEUTRAL_TARGET_STAGE == <<0, 13500, -3000>>

\* 1.5, in tenths.
HAND_DELTA_SCALE == 15

\* this.targetPosition as the constructor sets it, and as Reset restores it.
DefaultTarget == <<0, Scale, ARM_Z>>

Zero3 == <<0, 0, 0>>

\* The scene-graph nodes of the arm that carry a transform of interest.
Nodes == {"base", "link1", "link2", "link3", "link4", "endEffectorTip"}

\* The nodes whose quaternion the model keeps (the tip helper has none).
Links == {"base", "link1", "link2", "link3", "link4"}

\* Object3D.parent as enter() builds it (armGroup.add / linkN.add).
Parent ==
    [n \in Nodes |->
        CASE n = "base"           -> "armGroup"
          [] n = "link1"          -> "armGroup"
          [] n = "link2"          -> "link1"
          [] n = "link3"          -> "link2"
          [] n = "link4"          -> "link3"
          [] n = "endEffectorTip" -> "link4"]

\* Object3D.position as enter() sets it.
LocalPos ==
    [n \in Nodes |->
        CASE n = "base"           -> Zero3
          [] n = "link1"          -> <<0, BASE_SIZE[2] \div 2 + LINK1_SIZE[2] \div 2, 0>>
          [] n = "link2"          -> <<0, LINK1_SIZE[2] \div 2 + LINK2_SIZE[2] \div 2, 0>>
          [] n = "link3"          -> <<0, LINK2_SIZE[2] \div 2 + LINK3_SIZE[2] \div 2, 0>>
          [] n = "link4"          -> <<0, LINK3_SIZE[2] \div 2 + LINK4_SIZE[2] \div 2, 0>>
          [] n = "endEffectorTip" -> <<0, LINK4_SIZE[2] \div 2, 0>>]

\* armGroup.position: the base's bottom sits at y = 0.
ArmGroupPos == <<0, BASE_SIZE[2] \div 2, ARM_Z>>

\* The order in which enter() constructs the arm's segments: the base, the
\* three rotating links, the end-effector segment.
ConstructionOrder == <<"base", "link1", "link2", "link3", "link4">>

\* A mutant of IkJointsEntered: the joints are listed root first.
IkJointsRootFirst == <<"base", "link1", "link2", "link3">>

\* this.ikJoints as enter() fills it: from the end-effector back to the base.
IkJointsEntered == <<"link3", "link2", "link1", "base">>

\* All links at rest (enter() leaves every quaternion the identity).
RelaxedPose == [n \in Links |-> QIdent]

\* ------------------------------------------------- IKArmWorld: world space

\* A node's local quaternion; the tip helper is never rotated.
NodeQuat(q, n) == IF n \in Links THEN q[n] ELSE QIdent

RECURSIVE WorldRot(_, _)
\* The world rotation of node n: the quaternions from armGroup down to n.
WorldRot(q, n) ==
    IF n = "armGroup" THEN QIdent
    ELSE QMul(WorldRot(q, Parent[n]), NodeQuat(q, n))

RECURSIVE WorldPos(_, _, _)
\* Object3D.getWorldPosition: n's position with the stage group at sp.
WorldPos(q, sp, n) ==
    IF n = "armGroup" THEN VAdd(sp, ArmGroupPos)
    ELSE VAdd(WorldPos(q, sp, Parent[n]), QRot(WorldRot(q, Parent[n]), LocalPos[n]))

\* ------------------------------------------------------ IKArmWorld: state

VARIABLES
    phase,          \* the instance's life: "constructed", "partial" (enter threw), "entered", "exited"
    ikJoints,       \* this.ikJoints
    quat,           \* each link's Object3D.quaternion
    stagePos,       \* this.xrStageGroup.position
    targetSphere,   \* this.targetSphere.position (local to the stage group)
    targetPosition, \* this.targetPosition (world space, sampled by update)
    xr,             \* _xrFirstFrame, _handPosPrev, _handPosCurr, _xrTargetWorld
    tmp,            \* the CCD temporaries: _eePos, _jointPos, _currentDir, _desiredDir, _deltaQ, _axis
    pc,             \* where update() stands: "idle", "iter", "joint", "overlay"
    iter,           \* the for-loop's iter
    j,              \* the for-loop's j
    overlay,        \* the distance the debug overlay shows (-1 before the first readout)
    err,            \* the exception update() ended with, "none" if it returned
    frames,         \* update() calls so far
    moves,          \* target placements by the user so far
    call,           \* history: what the current / last update() call did
    lastStep,       \* history: the last joint visit of the CCD loop
    run,            \* history: the calls made since the target last changed
    localPos,       \* each node's Object3D.position (local to its parent)
    parent,         \* each node's Object3D.parent
    iterations,     \* the outer loop's bound, the module constant CCD_ITERATIONS
    toRender,       \* main.js render(): update() has returned, renderer.render() is next
    shown           \* history: what the last renderer.render() read

\* The scene graph under the stage group and the loop bound: enter() builds
\* the one, the module fixes the other.
graphVars == <<localPos, parent, iterations>>

\* The frame callback of main.js.
frameVars == <<toRender, shown>>

ikVars == <<phase, ikJoints, quat, stagePos, targetSphere, targetPosition, xr,
            tmp, pc, iter, j, overlay, err, frames, moves, call, lastStep, run,
            graphVars, frameVars>>

\* video-host/server.js: the state of the server process and its surroundings.
VARIABLES
    fs,             \* the file system at the two places getVideoPath() looks
    pending,        \* requests whose fs.stat callback has not run yet
    responses,      \* per request, in arrival order: the response heads written for it
    crashed         \* an uncaught exception has ended the process

srvVars == <<fs, pending, responses, crashed>>

\* WorldManager and the controls of main.js that call it.
VARIABLES
    worlds,             \* every world instance made so far, in the order of construction
    currentWorld,       \* this.currentWorld: a place in worlds, 0 for null
    currentWorldIndex,  \* this.currentWorldIndex
    plan,               \* the steps the running switchWorld / refreshCurrentWorld has left
    arg,                \* the index the running switchWorld was called with
    thrown,             \* history: the exception the last call let out to its caller
    switches,           \* switchWorld calls so far
    shapeText,          \* #shape-count-value's textContent
    shapeClicks         \* clicks on the shape-count controls so far

wmVars == <<worlds, currentWorld, currentWorldIndex, plan, arg, thrown, switches,
            shapeText, shapeClicks>>

\* The world carousel of main.js.
VARIABLES
    currentScrollY,     \* let currentScrollY
    targetScrollY,      \* let targetScrollY
    isDragging,         \* let isDragging
    dragStartY,         \* let dragStartY
    dragStartScroll,    \* let dragStartScroll
    snapTimeout,        \* a snapToNearest timer is pending
    lastClick,          \* history: the last click on a carousel button
    scrolls             \* wheel and drag events so far

carVars == <<currentScrollY, targetScrollY, isDragging, dragStartY, dragStartScroll,
             snapTimeout, lastClick, scrolls>>

\* HandTrackingWorld instances and the two XR hands they listen to.
VARIABLES
    hands,              \* renderer.xr.getHand(i): userData, listeners, joints, pinching
    handWorlds,         \* every HandTrackingWorld instance made so far
    spheres,            \* every sphere mesh made so far: its parent, disposed or not
    handErr,            \* history: the instance whose handler last threw, 0 for none
    handEvents          \* hand events so far

htVars == <<hands, handWorlds, spheres, handErr, handEvents>>

appVars == <<wmVars, carVars, htVars>>

\* The temporaries as the constructor makes them.
TmpInit ==
    [eePos |-> Zero3, jointPos |-> Zero3, currentDir |-> Zero3,
     desiredDir |-> Zero3, deltaQ |-> QIdent, axis |-> Zero3]

XrInit ==
    [firstFrame |-> TRUE, handPosPrev |-> Zero3, handPosCurr |-> Zero3,
     targetWorld |-> Zero3]

NoStep == [joint |-> "none", kind |-> "none", before |-> QIdent, angle |-> 0, at |-> 0]

\* Nothing rendered yet.
NoneShown == [quat |-> RelaxedPose, pc |-> "idle", kind |-> "none", passes |-> 0, frame |-> 0]

\* The world position of the end-effector tip helper.
TipWorld(q, sp) == WorldPos(q, sp, "endEffectorTip")

\* A fresh record of calls for the target t, placed with the arm posed q.
NewRun(t, q, sp) ==
    [target  |-> t,
     quat    |-> q,
     atTip   |-> t = TipWorld(q, sp),
     relaxed |-> q = RelaxedPose,
     dists   |-> <<VDistance(TipWorld(q, sp), t)>>]

\* A fresh record of one update() call: what it did (kind), whether the chain
\* was empty when it began, the pose it began with, the target it sampled, and
\* counts of its work.
NewCall(kind, empty, q) ==
    [kind |-> kind, empty |-> empty, quat0 |-> q, target |-> targetPosition,
     passes |-> 0, visits |-> 0, turns |-> [n \in Links |-> 0], lenSkips |-> 0]

IkInit ==
    /\ phase = "constructed"
    /\ ikJoints = <<>>
    /\ quat = RelaxedPose
    /\ stagePos = Zero3
    /\ targetSphere = DefaultTarget
    /\ targetPosition = DefaultTarget
    /\ xr = XrInit
    /\ tmp = TmpInit
    /\ pc = "idle"
    /\ iter = 0
    /\ j = 0
    /\ overlay = -1
    /\ err = "none"
    /\ frames = 0
    /\ moves = 0
    /\ call = NewCall("none", FALSE, RelaxedPose)
    /\ lastStep = NoStep
    /\ run = NewRun(DefaultTarget, RelaxedPose, Zero3)
    /\ localPos = LocalPos
    /\ parent = Parent
    /\ toRender = FALSE
    /\ shown = NoneShown

\* ------------------------------------------------ IKArmWorld: the CCD loop

\* x < 1e-6, for a fixed-point x >= 0.
NearZero(x) == (10 ^ 6 \div Scale) * x < 1

\* A mutant of AngleNegligible: no angle counts as negligible.
AngleNeverNegligible(clamp) == FALSE

\* if (clampAngle < 1e-6) continue;
AngleNegligible(clamp) == NearZero(clamp)

\* A mutant of UpdateGuard: the guard is missing.
UpdateGuardMissing(ph) == TRUE

\* The guard that opens update(): armGroup, link4 and endEffectorTip exist.
\* enter() sets them all, a throwing enter() leaves endEffectorTip null,
\* exit() nulls them.
UpdateGuard(ph) == ph = "entered"

\* A mutant of EndEffectorNode: the end-effector segment's centre is read
\* instead of the tip helper.
EndEffectorIsLink4 == "link4"

\* The node whose world position the loop reads as the end effector.
EndEffectorNode == "endEffectorTip"

\* A mutant of IterContinues: the loop ends early once the tip is on the target.
IterContinuesUntilClose(it, dist) == it < iterations /\ dist > Scale \div 100

\* A mutant of IterContinues: the test comes after the body (do ... while).
IterContinuesDoWhile(it, dist) == it = 0 \/ it < iterations

\* The outer loop's condition, tested before every pass, the first included:
\* iter < CCD_ITERATIONS, whatever the distance.
IterContinues(it, dist) == it < iterations

\* A mutant of NextJoint: a skipped joint ends the pass (break for continue).
NextJointBreaks(jj, skipped) == IF skipped THEN Len(IkJointsEntered) ELSE jj + 1

\* The loop variable after a joint visit: j++, also after a `continue`.
NextJoint(jj, skipped) == jj + 1

\* A mutant of ClampAngle: the damping factor is left out.
ClampAngleUndamped(angle) == Min(angle, CCD_MAX_ANGLE)

\* A mutant of PassEePos: the temporary is not refreshed at the head of a pass.
PassEePosStale(t, ee) == t.eePos

\* A mutant of PassEePos: the temporary is filled once and then reused.
PassEePosCached(t, ee) == IF t.eePos = Zero3 THEN ee ELSE t.eePos

\* this.endEffectorTip.getWorldPosition(this._eePos) at the head of a pass:
\* the temporary is overwritten with the tip's world position ee.
PassEePos(t, ee) == ee

\* A mutant of ClampAngle: the angle is damped but not clamped.
ClampAngleUnclamped(angle) == RDiv(angle * CCD_DAMPING, 100)

\* Math.min(angle, CCD_MAX_ANGLE) * CCD_DAMPING
ClampAngle(angle) == RDiv(Min(angle, CCD_MAX_ANGLE) * CCD_DAMPING, 100)

\* A mutant of AxisOf: the axis is used without being normalised.
AxisNotNormalised(axisRaw, axisLen) == axisRaw

\* _axis.divideScalar(axisLen)
AxisOf(axisRaw, axisLen) == VDivideScalar(axisRaw, axisLen)

\* A mutant of Premultiply: the correction is multiplied on the right.
Postmultiply(dq, q) == QMul(q, dq)

\* joint.quaternion.premultiply(_deltaQ)
Premultiply(dq, q) == QMul(dq, q)

\* A mutant of PositionAfterTurn: the turn swings the joint's own position too.
PositionAfterTurnMoved(lp, jn, dq) == [lp EXCEPT ![jn] = QRot(dq, lp[jn])]

\* The positions after joint jn is turned by dq: premultiply() writes the
\* joint's quaternion and nothing else of the Object3D.
PositionAfterTurn(lp, jn, dq) == lp

\* A mutant of InputAllowed: a handler may run at any point of the frame.
InputAllowedAnytime(p, tr) == TRUE

\* An input event's handler runs only between frame callbacks: render() of
\* main.js is one synchronous call, update() and renderer.render() included.
InputAllowed(p, tr) == p = "idle" /\ ~tr

\* A mutant of RenderReady: the renderer may read the scene at any time.
RenderReadyAnytime(p) == TRUE

\* renderer.render(scene, camera) is the statement after worldManager.update():
\* it runs once update() has returned.
RenderReady(p) == p = "idle"

\* joint.getWorldPosition(_jointPos), then the two subVectors: the temporaries
\* once the joint's position jointPos is known.
CcdDirs(tgt, t, jointPos) ==
    The({ [t EXCEPT !.jointPos = p, !.currentDir = VSub(t.eePos, p),
                    !.desiredDir = VSub(tgt, p)]
          : p \in {jointPos} })

\* The rotation applied about the axis of dq by the clamped angle, or the skip
\* when the axis has no length.  t2: the temporaries with dq in _deltaQ.
CcdApply(q, t2, jn, clamp) ==
    The({
        The({
            IF NearZero(axisLen)
            THEN [quat |-> q, tmp |-> [t2 EXCEPT !.axis = axisRaw],
                  kind |-> "skipAxis", angle |-> 0]
            ELSE The({
                     The({ [quat  |-> [q EXCEPT ![jn] = Premultiply(dq2, q[jn])],
                            tmp   |-> [t2 EXCEPT !.axis = axis, !.deltaQ = dq2],
                            kind  |-> "applied",
                            angle |-> clamp]
                         : dq2 \in {SetFromAxisAngle(axis, clamp)} })
                   : axis \in {AxisOf(axisRaw, axisLen)} })
          : axisLen \in {VLength(axisRaw)} })
      : axisRaw \in {<<t2.deltaQ[1], t2.deltaQ[2], t2.deltaQ[3]>>} })

\* The normalised directions, the shortest arc between them and its clamped
\* angle, or the skip when that angle is negligible.  t1: the temporaries with
\* the raw directions.
CcdTurn(q, t1, jn) ==
    The({
        The({
            The({
                IF AngleNegligible(clamp)
                THEN [quat |-> q, tmp |-> t2, kind |-> "skipAngle", angle |-> 0]
                ELSE CcdApply(q, t2, jn, clamp)
              : clamp \in {ClampAngle(2 * AcosFx(Min(Scale, Abs(t2.deltaQ[4]))))} })
          : t2 \in {[t1 EXCEPT !.currentDir = dirs[1], !.desiredDir = dirs[2],
                               !.deltaQ = SetFromUnitVectors(dirs[1], dirs[2])]} })
      : dirs \in {<<VNormalize(t1.currentDir), VNormalize(t1.desiredDir)>>} })

\* One visit of joint jn: the body of the inner loop.  q: the quaternions,
\* sp: the stage position, tgt: this.targetPosition, t: the temporaries.
\* Gives the quaternions and temporaries after the visit, and what happened.
CcdJoint(q, sp, tgt, t, jn) ==
    The({
        The({
            IF NearZero(len[1]) \/ NearZero(len[2])
            THEN [quat |-> q, tmp |-> t1, kind |-> "skipLen", angle |-> 0]
            ELSE CcdTurn(q, t1, jn)
          : len \in {<<VLength(t1.currentDir), VLength(t1.desiredDir)>>} })
      : t1 \in {CcdDirs(tgt, t, WorldPos(q, sp, jn))} })

\* ----------------------------------------------------- IKArmWorld: actions

\* The places the user drags the target to with the gizmo (stage space):
\* beside the arm, on the arm's axis between the last joint and the tip, on
\* link1's centre, out of the arm's plane, and far out of reach.
TargetSet ==
    { <<5000, 10000, -8000>>,
      <<0, 14700, -8000>>,
      <<0, 5500, -8000>>,
      <<3000, 9000, -4000>>,
      <<30000, 5500, -8000>> }

\* new WorldClass() then enter(scene, renderer, camera); a throwing enter()
\* (caught by WorldManager.switchWorld) stops before the tip helper and
\* ikJoints exist.
Enter(outcome) ==
    /\ phase = "constructed"
    /\ InputAllowed(pc, toRender)
    /\ phase' = IF outcome = "ok" THEN "entered" ELSE "partial"
    /\ ikJoints' = IF outcome = "ok" THEN IkJointsEntered ELSE <<>>
    /\ xr' = [xr EXCEPT !.firstFrame = TRUE]
    /\ localPos' = LocalPos
    /\ parent' = Parent
    /\ UNCHANGED <<quat, stagePos, targetSphere, targetPosition, tmp, pc, iter, j,
                   overlay, err, frames, moves, call, lastStep, run, iterations,
                   frameVars>>
    /\ UNCHANGED <<srvVars, appVars>>

\* exit(scene): every reference dropped, ikJoints emptied.
Exit ==
    /\ phase \in {"entered", "partial"}
    /\ InputAllowed(pc, toRender)
    /\ phase' = "exited"
    /\ ikJoints' = <<>>
    /\ UNCHANGED <<quat, stagePos, targetSphere, targetPosition, xr, tmp, pc, iter,
                   j, overlay, err, frames, moves, call, lastStep, run, graphVars,
                   frameVars>>
    /\ UNCHANGED <<srvVars, appVars>>

\* The gizmo drags the target sphere to t (stage space).
MoveTarget(t) ==
    /\ phase = "entered"
    /\ InputAllowed(pc, toRender)
    /\ moves < MaxMoves
    /\ targetSphere' = t
    /\ moves' = moves + 1
    /\ UNCHANGED <<phase, ikJoints, quat, stagePos, targetPosition, xr, tmp, pc,
                   iter, j, overlay, err, frames, call, lastStep, run, graphVars,
                   frameVars>>
    /\ UNCHANGED <<srvVars, appVars>>

\* The gizmo drops the target sphere exactly on the end-effector tip.
SnapTargetToTip ==
    MoveTarget(VSub(TipWorld(quat, stagePos), stagePos))

\* The Reset Target button.
ResetTarget ==
    /\ phase = "entered"
    /\ InputAllowed(pc, toRender)
    /\ moves < MaxMoves
    /\ targetPosition' = DefaultTarget
    /\ targetSphere' = DefaultTarget
    /\ moves' = moves + 1
    /\ UNCHANGED <<phase, ikJoints, quat, stagePos, xr, tmp, pc, iter, j, overlay,
                   err, frames, call, lastStep, run, graphVars, frameVars>>
    /\ UNCHANGED <<srvVars, appVars>>

\* A mutant of SampleTarget: the frame does not sample the target.
SampleTargetSkipped(old, sp, ts) == old

\* this.targetSphere.getWorldPosition(this.targetPosition): the vector old is
\* overwritten with the sphere's world position, the stage at sp and the
\* sphere at ts in it.
SampleTarget(old, sp, ts) == VAdd(sp, ts)

\* A mutant of XrAfter: a frame without XR does not re-arm the first-frame flag.
XrAfterNoRearm(presenting, h) ==
    IF presenting
    THEN IF xr.firstFrame
         THEN [firstFrame |-> FALSE, handPosPrev |-> h, handPosCurr |-> h,
               targetWorld |-> VAdd(XR_STAGE_OFFSET, XR_NEUTRAL_TARGET_STAGE)]
         ELSE [firstFrame |-> FALSE, handPosPrev |-> h, handPosCurr |-> h,
               targetWorld |->
                   << xr.targetWorld[1] + RDiv((h[1] - xr.handPosPrev[1]) * HAND_DELTA_SCALE, 10),
                      xr.targetWorld[2] + RDiv((h[2] - xr.handPosPrev[2]) * HAND_DELTA_SCALE, 10),
                      xr.targetWorld[3] + RDiv((h[3] - xr.handPosPrev[3]) * HAND_DELTA_SCALE, 10) >>]
    ELSE xr

\* xr after the target-source block of update(); h: the right controller's
\* world position this frame.
XrAfter(presenting, h) ==
    IF presenting
    THEN IF xr.firstFrame
         THEN [firstFrame |-> FALSE, handPosPrev |-> h, handPosCurr |-> h,
               targetWorld |-> VAdd(XR_STAGE_OFFSET, XR_NEUTRAL_TARGET_STAGE)]
         ELSE LET d == VSub(h, xr.handPosPrev)
              IN  [firstFrame |-> FALSE, handPosPrev |-> h, handPosCurr |-> h,
                   targetWorld |->
                       << xr.targetWorld[1] + RDiv(d[1] * HAND_DELTA_SCALE, 10),
                          xr.targetWorld[2] + RDiv(d[2] * HAND_DELTA_SCALE, 10),
                          xr.targetWorld[3] + RDiv(d[3] * HAND_DELTA_SCALE, 10) >>]
    ELSE [xr EXCEPT !.firstFrame = TRUE]

\* update(): the guard, the target source, the sample of the target.  The
\* orbit camera block moves the camera only and is left out.
UpdateBegin(presenting, h) ==
    /\ pc = "idle"
    /\ ~toRender
    /\ frames < MaxFrames
    /\ frames' = frames + 1
    /\ lastStep' = NoStep
    /\ IF ~UpdateGuard(phase)
       THEN /\ call' = NewCall("noop", Len(ikJoints) = 0, quat)
            /\ toRender' = TRUE
            /\ UNCHANGED <<phase, ikJoints, quat, stagePos, targetSphere,
                           targetPosition, xr, tmp, pc, iter, j, overlay, err,
                           moves, run>>
       ELSE IF phase # "entered"
       THEN \* xrStageGroup / targetSphere is null: a TypeError leaves update()
            /\ err' = "TypeError"
            /\ call' = NewCall("threw", Len(ikJoints) = 0, quat)
            /\ toRender' = FALSE
            /\ UNCHANGED <<phase, ikJoints, quat, stagePos, targetSphere,
                           targetPosition, xr, tmp, pc, iter, j, overlay, moves, run>>
       ELSE LET sp  == IF presenting THEN XR_STAGE_OFFSET ELSE Zero3
                x   == XrAfter(presenting, h)
                ts  == IF presenting THEN VSub(x.targetWorld, sp) ELSE targetSphere
                tp  == SampleTarget(targetPosition, sp, ts)
            IN  /\ stagePos' = sp
                /\ xr' = x
                /\ targetSphere' = ts
                /\ targetPosition' = tp
                /\ tmp' = IF presenting /\ ~xr.firstFrame
                          THEN [tmp EXCEPT !.currentDir = VSub(h, xr.handPosPrev)]
                          ELSE tmp
                /\ pc' = "iter"
                /\ iter' = 0
                /\ call' = [NewCall("solving", Len(ikJoints) = 0, quat) EXCEPT !.target = tp]
                /\ run' = IF tp = run.target /\ sp = stagePos
                          THEN run ELSE NewRun(tp, quat, sp)
                /\ toRender' = TRUE
                /\ UNCHANGED <<phase, ikJoints, quat, j, overlay, err, moves>>
    /\ UNCHANGED <<graphVars, shown>>
    /\ UNCHANGED <<srvVars, appVars>>

\* The right controller's select event (trigger): the XR target goes back to
\* neutral and the sphere with it, relative to the stage where it stands.
RightSelect ==
    /\ phase = "entered"
    /\ InputAllowed(pc, toRender)
    /\ xr' = [xr EXCEPT !.targetWorld = VAdd(XR_STAGE_OFFSET, XR_NEUTRAL_TARGET_STAGE)]
    /\ targetSphere' = VSub(VAdd(XR_STAGE_OFFSET, XR_NEUTRAL_TARGET_STAGE), stagePos)
    /\ UNCHANGED <<phase, ikJoints, quat, stagePos, targetPosition, tmp, pc, iter, j,
                   overlay, err, frames, moves, call, lastStep, run, graphVars,
                   frameVars>>
    /\ UNCHANGED <<srvVars, appVars>>

\* The head of the outer loop: the test, then the end effector is read once
\* for the whole pass.
IterStart ==
    /\ pc = "iter"
    /\ LET ee == WorldPos(quat, stagePos, EndEffectorNode)
       IN  IF IterContinues(iter, VDistance(ee, targetPosition))
           THEN /\ tmp' = [tmp EXCEPT !.eePos = PassEePos(tmp, ee)]
                /\ j' = 0
                /\ call' = [call EXCEPT !.passes = @ + 1]
                /\ IF Len(ikJoints) = 0
                   THEN iter' = iter + 1 /\ pc' = "iter"
                   ELSE iter' = iter /\ pc' = "joint"
           ELSE /\ pc' = "overlay"
                /\ UNCHANGED <<tmp, j, call, iter>>
    /\ UNCHANGED <<phase, ikJoints, quat, stagePos, targetSphere, targetPosition,
                   xr, overlay, err, frames, moves, lastStep, run, graphVars,
                   frameVars>>
    /\ UNCHANGED <<srvVars, appVars>>

\* One pass of the inner loop's body, for joint ikJoints[j].
JointStep ==
    /\ pc = "joint"
    /\ j < Len(ikJoints)
    /\ \E jn \in {ikJoints[j + 1]} :
       \E r \in {CcdJoint(quat, stagePos, targetPosition, tmp, jn)} :
       \E nj \in {NextJoint(j, r.kind # "applied")} :
           /\ quat' = r.quat
           /\ tmp' = r.tmp
           /\ localPos' = IF r.kind = "applied"
                          THEN PositionAfterTurn(localPos, jn, r.tmp.deltaQ)
                          ELSE localPos
           /\ lastStep' = [joint |-> jn, kind |-> r.kind, before |-> quat[jn],
                           angle |-> r.angle, at |-> j]
           /\ call' = [call EXCEPT !.visits = @ + 1, !.turns[jn] = @ + 1,
                                   !.lenSkips = @ + (IF r.kind = "skipLen" THEN 1 ELSE 0)]
           /\ j' = nj
           /\ IF nj < Len(ikJoints)
              THEN pc' = "joint" /\ iter' = iter
              ELSE pc' = "iter" /\ iter' = iter + 1
    /\ UNCHANGED <<phase, ikJoints, stagePos, targetSphere, targetPosition, xr,
                   overlay, err, frames, moves, run, parent, iterations, frameVars>>
    /\ UNCHANGED <<srvVars, appVars>>

\* The debug overlay: the end effector is read again and the distance shown.
Overlay ==
    /\ pc = "overlay"
    /\ LET ee == TipWorld(quat, stagePos)
           d  == VDistance(ee, targetPosition)
       IN  /\ tmp' = [tmp EXCEPT !.eePos = ee]
           /\ overlay' = d
           /\ run' = [run EXCEPT !.dists = Append(@, d)]
    /\ pc' = "idle"
    /\ call' = [call EXCEPT !.kind = "solved"]
    /\ UNCHANGED <<phase, ikJoints, quat, stagePos, targetSphere, targetPosition,
                   xr, iter, j, err, frames, moves, lastStep, graphVars, frameVars>>
    /\ UNCHANGED <<srvVars, appVars>>

\* main.js render(): renderer.render(scene, camera), the statement after
\* worldManager.update().  It reads every node's world matrix.
Render ==
    /\ toRender
    /\ RenderReady(pc)
    /\ toRender' = FALSE
    /\ shown' = [quat |-> quat, pc |-> pc, kind |-> call.kind,
                 passes |-> call.passes, frame |-> frames]
    /\ UNCHANGED <<phase, ikJoints, quat, stagePos, targetSphere, targetPosition,
                   xr, tmp, pc, iter, j, overlay, err, frames, moves, call,
                   lastStep, run, graphVars>>
    /\ UNCHANGED <<srvVars, appVars>>

\* The desktop inputs: no XR session is presenting.
IkNext ==
    \/ \E o \in {"ok", "throws"} : Enter(o)
    \/ Exit
    \/ \E t \in TargetSet : MoveTarget(t)
    \/ SnapTargetToTip
    \/ ResetTarget
    \/ UpdateBegin(FALSE, Zero3)
    \/ IterStart
    \/ JointStep
    \/ Overlay
    \/ Render

\* ------------------------------------------------ video-host/server.js

\* Requests the server is sent in one behaviour, and the largest file size.
MaxRequests == 2

MaxTotal == 2

\* Strings the code takes apart are sequences of characters.
BytesEq == <<"b", "y", "t", "e", "s", "=">>

VideoUrl == <<"/", "v", "i", "d", "e", "o">>

RootUrl == <<"/">>

DigitChars == <<"0", "1", "2", "3", "4", "5", "6", "7", "8", "9">>

IsDigit(c) == \E n \in 1..10 : DigitChars[n] = c

DigitVal(c) == (CHOOSE n \in 1..10 : DigitChars[n] = c) - 1

\* parseInt(s, 10) of a string of digits; the empty string gives NaN.
RECURSIVE ParseDigits(_, _)
ParseDigits(s, acc) ==
    IF s = <<>> THEN acc ELSE ParseDigits(Tail(s), 10 * acc + DigitVal(Head(s)))

ParseInt(s) ==
    IF s = <<>> THEN [nan |-> TRUE, val |-> 0]
    ELSE [nan |-> FALSE, val |-> ParseDigits(s, 0)]

\* x || 0 for a number x: NaN and 0 are falsy.
OrZero(p) == IF p.nan THEN 0 ELSE p.val

\* The place after the longest run of digits that starts at s[i]: \d* .
RECURSIVE DigitsEnd(_, _)
DigitsEnd(s, i) ==
    IF i <= Len(s) /\ IsDigit(s[i]) THEN DigitsEnd(s, i + 1) ELSE i

\* /bytes=(\d*)-(\d*)/ matches s at place i.
MatchAt(s, i) ==
    /\ i + 5 <= Len(s)
    /\ SubSeq(s, i, i + 5) = BytesEq
    /\ LET d == DigitsEnd(s, i + 6) IN d <= Len(s) /\ s[d] = "-"

\* range.match(/bytes=(\d*)-(\d*)/): the leftmost match and its two groups.
RangeMatch(s) ==
    IF \E i \in 1..Len(s) : MatchAt(s, i)
    THEN LET i == CHOOSE k \in 1..Len(s) :
                      MatchAt(s, k) /\ \A m \in 1..(k - 1) : ~MatchAt(s, m)
             d == DigitsEnd(s, i + 6)
             e == DigitsEnd(s, d + 1)
         IN  [ok |-> TRUE, m1 |-> SubSeq(s, i + 6, d - 1), m2 |-> SubSeq(s, d + 1, e - 1)]
    ELSE [ok |-> FALSE, m1 |-> <<>>, m2 |-> <<>>]

\* req.url.split('?')[0] || '/'
UrlPath(url) ==
    LET q     == IF \E i \in 1..Len(url) : url[i] = "?"
                 THEN CHOOSE i \in 1..Len(url) :
                          url[i] = "?" /\ \A m \in 1..(i - 1) : url[m] # "?"
                 ELSE Len(url) + 1
        first == SubSeq(url, 1, q - 1)
    IN  IF first = <<>> THEN RootUrl ELSE first

VIDEO_FILE == "videos/panorama.mp4"

AltFile == "panorama.mp4"

VideoPaths == {VIDEO_FILE, AltFile}

\* What a place in the file system holds: nothing, a directory, or a file.
FsEntries ==
    {[kind |-> "none", size |-> 0], [kind |-> "dir", size |-> 0]}
        \cup {[kind |-> "file", size |-> n] : n \in 0..MaxTotal}

\* fs.existsSync is true of a file and of a directory.
getVideoPath(f) ==
    IF f[VIDEO_FILE].kind # "none" THEN VIDEO_FILE
    ELSE IF f[AltFile].kind # "none" THEN AltFile
    ELSE "null"

CORS_HEADERS ==
    ("Access-Control-Allow-Origin" :> "*")
        @@ ("Access-Control-Allow-Methods" :> "GET, OPTIONS")
        @@ ("Access-Control-Allow-Headers" :> "Range")
        @@ ("Access-Control-Expose-Headers" :> "Content-Range, Accept-Ranges, Content-Length")

\* { ...base, extra }: the later keys win.
Spread(base, extra) == extra @@ base

NoBody == [kind |-> "empty", text |-> "", start |-> 0, end |-> 0]

TextBody(message) == [kind |-> "text", text |-> message, start |-> 0, end |-> 0]

\* createReadStream(filePath, { start, end }).pipe(res); without the options
\* the whole file.
StreamBody(start, end) == [kind |-> "stream", text |-> "", start |-> start, end |-> end]

\* writeHead was called, and createReadStream then threw: nothing is sent.
AbortedBody(start, end) == [kind |-> "aborted", text |-> "", start |-> start, end |-> end]

sendCorsPreflight == [status |-> 204, headers |-> CORS_HEADERS, body |-> NoBody]

\* A mutant of sendError: the error head is written without the CORS headers.
sendErrorWithoutCors(statusCode, message) ==
    [status  |-> statusCode,
     headers |-> ("Content-Type" :> "text/plain"),
     body    |-> TextBody(IF message = "" THEN "Error" ELSE message)]

sendError(statusCode, message) ==
    [status  |-> statusCode,
     headers |-> Spread(CORS_HEADERS, ("Content-Type" :> "text/plain")),
     body    |-> TextBody(IF message = "" THEN "Error" ELSE message)]

\* streamVideo(req, res, filePath, stat): the head it writes, and whether
\* createReadStream throws (a start below 0 is out of range), which nothing
\* catches.
streamVideo(range, total) ==
    IF ~range.present \/ range.text = <<>>
    THEN [resp   |-> [status  |-> 200,
                      headers |-> Spread(CORS_HEADERS,
                                     ("Accept-Ranges" :> "bytes")
                                         @@ ("Content-Type" :> "video/mp4")
                                         @@ ("Content-Length" :> total)),
                      body    |-> StreamBody(0, total - 1)],
          throws |-> FALSE]
    ELSE LET match == RangeMatch(range.text)
         IN  IF ~match.ok
             THEN [resp |-> sendError(416, "Invalid Range"), throws |-> FALSE]
             ELSE LET start0    == OrZero(ParseInt(match.m1))
                      end0      == IF match.m2 # <<>> THEN ParseInt(match.m2).val
                                   ELSE total - 1
                      end       == Min(end0, total - 1)
                      start     == Min(start0, end)
                      chunkSize == end - start + 1
                      throws    == start < 0
                  IN  [resp   |-> [status  |-> 206,
                                   headers |-> Spread(CORS_HEADERS,
                                                  ("Accept-Ranges" :> "bytes")
                                                      @@ ("Content-Type" :> "video/mp4")
                                                      @@ ("Content-Range" :> <<start, end, total>>)
                                                      @@ ("Content-Length" :> chunkSize)),
                                   body    |-> IF throws THEN AbortedBody(start, end)
                                               ELSE StreamBody(start, end)],
                       throws |-> throws]

Methods == {"OPTIONS", "GET", "POST"}

Urls == {VideoUrl, RootUrl, VideoUrl \o <<"?", "t", "=", "1">>, <<"/", "v">>, <<"?", "a">>}

NoRange == [present |-> FALSE, text |-> <<>>]

RangeOf(text) == [present |-> TRUE, text |-> text]

RangeHeaders ==
    { NoRange,
      RangeOf(<<>>),
      RangeOf(BytesEq \o <<"1", "-", "2">>),
      RangeOf(BytesEq \o <<"1", "-">>),
      RangeOf(BytesEq \o <<"-", "1">>),
      RangeOf(BytesEq \o <<"1", "0", "-", "0">>),
      RangeOf(<<"x">> \o BytesEq \o <<"-">>),
      RangeOf(<<"i", "t", "e", "m", "s", "=", "0", "-", "1">>) }

SrvIdle ==
    /\ pending = {}
    /\ responses = <<>>
    /\ crashed = FALSE

\* The fallback place holds nothing or a one-byte file; VIDEO_FILE holds anything.
FsStates ==
    {f \in [VideoPaths -> FsEntries] :
        f[AltFile] \in {[kind |-> "none", size |-> 0], [kind |-> "file", size |-> 1]}}

SrvInit ==
    /\ fs \in FsStates
    /\ SrvIdle

\* http.createServer's handler, up to its return; a request that gets as far
\* as fs.stat waits for the callback.
Request(method, url, range) ==
    /\ ~crashed
    /\ Len(responses) < MaxRequests
    /\ LET id       == Len(responses) + 1
           urlPath  == UrlPath(url)
           filePath == getVideoPath(fs)
       IN  IF method = "OPTIONS"
           THEN /\ responses' = Append(responses, <<sendCorsPreflight>>)
                /\ UNCHANGED pending
           ELSE IF method # "GET"
           THEN /\ responses' = Append(responses, <<sendError(405, "Method Not Allowed")>>)
                /\ UNCHANGED pending
           ELSE IF urlPath # VideoUrl /\ urlPath # RootUrl
           THEN /\ responses' = Append(responses, <<sendError(404, "Not Found. Use /video to stream.")>>)
                /\ UNCHANGED pending
           ELSE IF filePath = "null"
           THEN /\ responses' = Append(responses, <<sendError(503,
                                    "No video file. Put panorama.mp4 in ./videos/ or set VIDEO_FILE.")>>)
                /\ UNCHANGED pending
           ELSE /\ responses' = Append(responses, <<>>)
                /\ pending' = pending \cup {[id |-> id, range |-> range, filePath |-> filePath]}
    /\ UNCHANGED <<fs, crashed>>
    /\ UNCHANGED <<ikVars, appVars>>

\* The fs.stat callback of a waiting request.
StatCallback(p) ==
    /\ ~crashed
    /\ p \in pending
    /\ pending' = pending \ {p}
    /\ LET stat == fs[p.filePath]
       IN  IF stat.kind # "file"
           THEN /\ responses' = [responses EXCEPT ![p.id] = Append(@, sendError(500, "File error"))]
                /\ UNCHANGED crashed
           ELSE LET r == streamVideo(p.range, stat.size)
                IN  /\ responses' = [responses EXCEPT ![p.id] = Append(@, r.resp)]
                    /\ crashed' = r.throws
    /\ UNCHANGED fs
    /\ UNCHANGED <<ikVars, appVars>>

\* Someone puts, replaces or removes a video file while the server runs.
FsChange(path, entry) ==
    /\ ~crashed
    /\ entry # fs[path]
    /\ [fs EXCEPT ![path] = entry] \in FsStates
    /\ fs' = [fs EXCEPT ![path] = entry]
    /\ UNCHANGED <<pending, responses, crashed>>
    /\ UNCHANGED <<ikVars, appVars>>

SrvNext ==
    \/ \E m \in Methods, u \in Urls, r \in RangeHeaders : Request(m, u, r)
    \/ \E p \in pending : StatCallback(p)
    \/ \E path \in VideoPaths, entry \in FsEntries : FsChange(path, entry)

\* ------------------------------------------------------------ world manager

\* switchWorld calls of a behaviour, the first being loadInitialWorld's.
MaxSwitches == 2

\* Clicks on the shape-count controls of a behaviour.
MaxShapeClicks == 2

\* this.worldNames, in the order of this.worldClasses.
WorldNames ==
    <<"Video", "Horse", "InDepth Panorama", "Panorama", "Floating Shapes",
      "Hand Tracking", "IK Arm Reach">>

\* The indexes of this.worldClasses (zero-based, as in the code).
WorldIndexes == 0..(Len(WorldNames) - 1)

FloatingShapesIndex == 4

MIN_SHAPES == 10

MAX_SHAPES == 10000

SHAPE_STEP == 1000

\* What exit and enter of a world can do: return or throw.
Outcomes == {"ok", "throws"}

\* parseInt(text, 10): leading blanks, an optional sign, then the longest run
\* of digits; NaN when there is no digit.
RECURSIVE SkipBlanks(_)
SkipBlanks(s) ==
    IF s # <<>> /\ Head(s) = " " THEN SkipBlanks(Tail(s)) ELSE s

RECURSIVE DigitPrefix(_)
DigitPrefix(s) ==
    IF s # <<>> /\ IsDigit(Head(s)) THEN <<Head(s)>> \o DigitPrefix(Tail(s)) ELSE <<>>

ParseIntText(text) ==
    LET s      == SkipBlanks(text)
        neg    == s # <<>> /\ Head(s) = "-"
        signed == s # <<>> /\ Head(s) \in {"-", "+"}
        digits == DigitPrefix(IF signed THEN Tail(s) ELSE s)
    IN  IF digits = <<>> THEN [nan |-> TRUE, val |-> 0]
        ELSE [nan |-> FALSE,
              val |-> IF neg THEN -ParseDigits(digits, 0) ELSE ParseDigits(digits, 0)]

\* x || d for a number x: NaN and 0 are falsy.
OrDefault(p, d) == IF p.nan \/ p.val = 0 THEN d ELSE p.val

\* String(n), what assigning the number n to textContent stores.
RECURSIVE DigitsOf(_)
DigitsOf(n) ==
    IF n < 10 THEN <<DigitChars[n + 1]>>
    ELSE DigitsOf(n \div 10) \o <<DigitChars[(n % 10) + 1]>>

NumText(n) == IF n < 0 THEN <<"-">> \o DigitsOf(-n) ELSE DigitsOf(n)

Max(a, b) == IF a >= b THEN a ELSE b

\* The minus handler's new count: only the lower bound is applied.
MinusCount(text) == Max(MIN_SHAPES, OrDefault(ParseIntText(text), 1000) - SHAPE_STEP)

\* The plus handler's new count with no upper bound.
PlusCountUnbounded(text) == OrDefault(ParseIntText(text), 1000) + SHAPE_STEP

\* The plus handler's new count: only the upper bound is applied.
PlusCount(text) == Min(MAX_SHAPES, OrDefault(ParseIntText(text), 1000) + SHAPE_STEP)

\* FloatingShapesWorld.enter's count taken from the text as it stands.
EnterCountUnclamped(text) == OrDefault(ParseIntText(text), 200)

\* FloatingShapesWorld.enter's count: the text, clamped to [10, 10000], 200
\* when the text is no number or zero.
EnterCount(text) == Max(10, Min(10000, OrDefault(ParseIntText(text), 200)))

\* What #shape-count-value holds when the page is loaded.
ShapeCountTexts ==
    { <<>>, <<"0">>, <<"5">>, <<" ", "2", "0", "0">>, NumText(1000), NumText(10000) }

\* A world instance as switchWorld makes it: enter and exit not yet called.
NewWorld(index) ==
    [cls |-> index, enters |-> 0, exits |-> 0, in |-> FALSE, count |-> 0,
     failed |-> {}]

\* isCurrentWorldFloatingShapes().
IsCurrentWorldFloatingShapes ==
    currentWorld # 0 /\ worlds[currentWorld].cls = FloatingShapesIndex

\* The manager after its constructor, the page as loaded with a given count.
WmIdle(text) ==
    /\ worlds = <<>>
    /\ currentWorld = 0
    /\ currentWorldIndex = 0
    /\ plan = <<>>
    /\ arg = 0
    /\ thrown = "none"
    /\ switches = 0
    /\ shapeText = text
    /\ shapeClicks = 0

WmInit == \E text \in ShapeCountTexts : WmIdle(text)

\* The steps of a switchWorld call that never exits the old world.
SwitchPlanNoExit(hasCurrent) == <<"construct", "enter", "ui">>

\* The steps of a switchWorld call, in the order of the code: exit of the
\* current world if there is one, then the new instance, its enter, the UI.
SwitchPlan(hasCurrent) ==
    IF hasCurrent THEN <<"exit", "construct", "enter", "ui">>
    ELSE <<"construct", "enter", "ui">>

\* A switchWorld whose try blocks cover exit only.
SwitchCatchesExitOnly(step) == step = "exit"

\* The steps of switchWorld that sit in a try block with a catch.
SwitchCatches(step) == step \in {"exit", "enter"}

\* The rest of the call after a step threw: it goes on if the exception was
\* caught, and ends with the exception otherwise.
AfterThrow(step) ==
    IF SwitchCatches(step)
    THEN /\ plan' = Tail(plan)
         /\ thrown' = thrown
    ELSE /\ plan' = <<>>
         /\ thrown' = step

\* A call of switchWorld(index) up to its first step; the caller goes on with
\* the steps after once the call has returned.
BeginSwitch(index, after) ==
    /\ plan = <<>>
    /\ switches < MaxSwitches
    /\ plan' = SwitchPlan(currentWorld # 0) \o after
    /\ arg' = index
    /\ thrown' = "none"
    /\ switches' = switches + 1
    /\ UNCHANGED <<worlds, currentWorld, currentWorldIndex, shapeText, shapeClicks>>
    /\ UNCHANGED <<ikVars, srvVars, htVars>>

\* switchWorld(index) called on its own.
SwitchWorld(index) ==
    /\ BeginSwitch(index, <<>>)
    /\ UNCHANGED carVars

\* loadInitialWorld(), called once by init().
LoadInitialWorld ==
    /\ switches = 0
    /\ SwitchWorld(0)

\* cycleWorld().
CycleWorld ==
    /\ switches > 0
    /\ SwitchWorld((currentWorldIndex + 1) % Len(WorldNames))

\* this.currentWorld.exit(this.scene) in its try block.
SwitchExit(o) ==
    /\ plan # <<>> /\ Head(plan) = "exit"
    /\ worlds' = [worlds EXCEPT ![currentWorld] =
                      [@ EXCEPT !.exits = @ + 1, !.in = FALSE,
                                !.failed = IF o = "throws" THEN @ \cup {"exit"} ELSE @]]
    /\ IF o = "throws" THEN AfterThrow("exit")
       ELSE plan' = Tail(plan) /\ thrown' = thrown
    /\ UNCHANGED <<currentWorld, currentWorldIndex, arg, switches, shapeText, shapeClicks>>
    /\ UNCHANGED <<ikVars, srvVars, carVars, htVars>>

\* this.currentWorldIndex = index; this.currentWorld = new WorldClass().
SwitchConstruct ==
    /\ plan # <<>> /\ Head(plan) = "construct"
    /\ currentWorldIndex' = arg
    /\ IF arg \in WorldIndexes
       THEN /\ worlds' = Append(worlds, NewWorld(arg))
            /\ currentWorld' = Len(worlds) + 1
            /\ plan' = Tail(plan)
            /\ thrown' = thrown
       ELSE /\ UNCHANGED <<worlds, currentWorld>>
            /\ plan' = <<>>
            /\ thrown' = "construct"
    /\ UNCHANGED <<arg, switches, shapeText, shapeClicks>>
    /\ UNCHANGED <<ikVars, srvVars, carVars, htVars>>

\* enter of the current world: a Floating Shapes world reads the count.
EnterWorld(w, o) ==
    [w EXCEPT !.enters = @ + 1, !.in = TRUE,
              !.count = IF w.cls = FloatingShapesIndex /\ o = "ok"
                        THEN EnterCount(shapeText) ELSE @,
              !.failed = IF o = "throws" THEN @ \cup {"enter"} ELSE @]

\* this.currentWorld.enter(scene, renderer, camera) in its try block.
SwitchEnter(o) ==
    /\ plan # <<>> /\ Head(plan) = "enter"
    /\ worlds' = [worlds EXCEPT ![currentWorld] = EnterWorld(@, o)]
    /\ IF o = "throws" THEN AfterThrow("enter")
       ELSE plan' = Tail(plan) /\ thrown' = thrown
    /\ UNCHANGED <<currentWorld, currentWorldIndex, arg, switches, shapeText, shapeClicks>>
    /\ UNCHANGED <<ikVars, srvVars, carVars, htVars>>

\* updateUI() and the camera reset: the call returns.
SwitchUi ==
    /\ plan # <<>> /\ Head(plan) = "ui"
    /\ plan' = Tail(plan)
    /\ UNCHANGED <<worlds, currentWorld, currentWorldIndex, arg, thrown, switches,
                   shapeText, shapeClicks>>
    /\ UNCHANGED <<ikVars, srvVars, carVars, htVars>>

\* A click that rebuilds the world whatever the current world is.
RefreshAlways == currentWorld # 0

\* The click handlers' test before refreshCurrentWorld().
RefreshWanted == IsCurrentWorldFloatingShapes

\* The steps of refreshCurrentWorld(): nothing when there is no world.
RefreshPlan == IF currentWorld = 0 THEN <<>> ELSE <<"refreshExit", "refreshEnter">>

\* A click on the minus or the plus control: the new count is shown and the
\* current world is refreshed if it is Floating Shapes.
ShapeClick(n) ==
    /\ plan = <<>>
    /\ switches > 0
    /\ shapeClicks < MaxShapeClicks
    /\ shapeText' = NumText(n)
    /\ shapeClicks' = shapeClicks + 1
    /\ plan' = IF RefreshWanted THEN RefreshPlan ELSE <<>>
    /\ thrown' = "none"
    /\ UNCHANGED <<worlds, currentWorld, currentWorldIndex, arg, switches>>
    /\ UNCHANGED <<ikVars, srvVars, carVars, htVars>>

ShapeMinus == ShapeClick(MinusCount(shapeText))

ShapePlus == ShapeClick(PlusCount(shapeText))

\* refreshCurrentWorld's exit: an exception skips the enter and is caught.
RefreshExit(o) ==
    /\ plan # <<>> /\ Head(plan) = "refreshExit"
    /\ worlds' = [worlds EXCEPT ![currentWorld] =
                      [@ EXCEPT !.exits = @ + 1, !.in = FALSE,
                                !.failed = IF o = "throws" THEN @ \cup {"exit"} ELSE @]]
    /\ plan' = IF o = "throws" THEN <<>> ELSE Tail(plan)
    /\ UNCHANGED <<currentWorld, currentWorldIndex, arg, thrown, switches, shapeText,
                   shapeClicks>>
    /\ UNCHANGED <<ikVars, srvVars, carVars, htVars>>

\* refreshCurrentWorld's enter on the same instance.
RefreshEnter(o) ==
    /\ plan # <<>> /\ Head(plan) = "refreshEnter"
    /\ worlds' = [worlds EXCEPT ![currentWorld] = EnterWorld(@, o)]
    /\ plan' = Tail(plan)
    /\ UNCHANGED <<currentWorld, currentWorldIndex, arg, thrown, switches, shapeText,
                   shapeClicks>>
    /\ UNCHANGED <<ikVars, srvVars, carVars, htVars>>

\* The steps of a running switchWorld call.
SwitchSteps ==
    \/ \E o \in Outcomes : SwitchExit(o)
    \/ SwitchConstruct
    \/ \E o \in Outcomes : SwitchEnter(o)
    \/ SwitchUi

\* The steps of a running refreshCurrentWorld call.
RefreshSteps ==
    \/ \E o \in Outcomes : RefreshExit(o)
    \/ \E o \in Outcomes : RefreshEnter(o)

\* ----------------------------------------------------------------- carousel

\* Wheel and pointer events of a behaviour.
MaxScrolls == 1

itemHeight == 54

viewportHeight == 320

trackPadding == 12

firstItemCenter == trackPadding + 24

viewportCenter == viewportHeight \div 2

\* The scroll position that centres item i.
ItemScroll(i) == firstItemCenter + i * itemHeight - viewportCenter

\* clampScroll(y).
ClampScroll(y) ==
    LET minScroll == firstItemCenter - viewportCenter
        maxScroll == firstItemCenter + (Len(WorldNames) - 1) * itemHeight - viewportCenter
    IN  Max(minScroll, Min(maxScroll, y))

\* Math.round of the quotient, not limited to the buttons there are.
CenteredIndexUnclamped(y) == RDiv((y + viewportCenter) - firstItemCenter, itemHeight)

\* getCenteredIndex() at scroll position y.
CenteredIndexAt(y) ==
    Max(0, Min(Len(WorldNames) - 1,
               RDiv((y + viewportCenter) - firstItemCenter, itemHeight)))

CenteredIndex == CenteredIndexAt(currentScrollY)

\* A click handler that switches whichever button is clicked.
ClickSwitchesAny(idx) == TRUE

\* The click handler's test: the clicked button is the centred one.
ClickSwitches(idx) == CenteredIndex = idx

\* The scroll positions followed are half items apart, so that a position
\* lies on an item, or half way between two where Math.round turns over.
ScrollGrid == itemHeight \div 2

\* e.deltaY of the wheel events, e.clientY of the pointer events.
WheelDeltas == {-2 * ScrollGrid, 15 * ScrollGrid}

PointerYs == {0, 5 * ScrollGrid}

\* 1 - exp(-12 dt) summed over the ticks of a step, as fractions.
TickFractions == { <<1, 2>> }

\* No snap timer.
NoTimers == [tracked |-> FALSE, orphans |-> 0]

\* The carousel after init(): setSelectedIndex(0) has run.
CarInit ==
    /\ targetScrollY = ClampScroll(ItemScroll(0))
    /\ currentScrollY = ClampScroll(ItemScroll(0))
    /\ isDragging = FALSE
    /\ dragStartY = 0
    /\ dragStartScroll = 0
    /\ snapTimeout = NoTimers
    /\ lastClick = [idx |-> -1, switched |-> FALSE]
    /\ scrolls = 0

\* The page takes events once init() has returned and no call is running.
PageReady == plan = <<>> /\ switches > 0

\* A click on button idx: nothing unless it is the centred one, else
\* switchWorld(idx) and updateUI().
Click(idx) ==
    /\ PageReady
    /\ lastClick' = [idx |-> idx, switched |-> ClickSwitches(idx)]
    /\ IF ClickSwitches(idx)
       THEN BeginSwitch(idx, <<"ui">>)
       ELSE UNCHANGED <<wmVars, ikVars, srvVars, htVars>>
    /\ UNCHANGED <<currentScrollY, targetScrollY, isDragging, dragStartY,
                   dragStartScroll, snapTimeout, scrolls>>

\* The wheel handler: the old tracked timer is cleared, a new one is set.
Wheel(deltaY) ==
    /\ PageReady
    /\ scrolls < MaxScrolls
    /\ targetScrollY' = ClampScroll(targetScrollY + deltaY)
    /\ snapTimeout' = [snapTimeout EXCEPT !.tracked = TRUE]
    /\ scrolls' = scrolls + 1
    /\ UNCHANGED <<currentScrollY, isDragging, dragStartY, dragStartScroll, lastClick>>
    /\ UNCHANGED <<wmVars, ikVars, srvVars, htVars>>

\* pointerdown on the track.
PointerDown(clientY) ==
    /\ PageReady
    /\ scrolls < MaxScrolls
    /\ isDragging' = TRUE
    /\ dragStartY' = clientY
    /\ dragStartScroll' = currentScrollY
    /\ scrolls' = scrolls + 1
    /\ UNCHANGED <<currentScrollY, targetScrollY, snapTimeout, lastClick>>
    /\ UNCHANGED <<wmVars, ikVars, srvVars, htVars>>

\* pointermove while dragging: the tracked timer is cleared.
PointerMove(clientY) ==
    /\ PageReady
    /\ isDragging
    /\ targetScrollY' = ClampScroll(dragStartScroll + (clientY - dragStartY))
    /\ snapTimeout' = [snapTimeout EXCEPT !.tracked = FALSE]
    /\ UNCHANGED <<currentScrollY, isDragging, dragStartY, dragStartScroll, lastClick,
                   scrolls>>
    /\ UNCHANGED <<wmVars, ikVars, srvVars, htVars>>

\* pointerup while dragging: a timer is set, the one tracked before it is
\* no longer known.
PointerUp ==
    /\ PageReady
    /\ isDragging
    /\ isDragging' = FALSE
    /\ snapTimeout' = [tracked |-> TRUE,
                       orphans |-> snapTimeout.orphans
                                       + (IF snapTimeout.tracked THEN 1 ELSE 0)]
    /\ UNCHANGED <<currentScrollY, targetScrollY, dragStartY, dragStartScroll,
                   lastClick, scrolls>>
    /\ UNCHANGED <<wmVars, ikVars, srvVars, htVars>>

\* A snap timer fires: snapToNearest().
SnapToNearest(tracked) ==
    /\ PageReady
    /\ IF tracked THEN snapTimeout.tracked ELSE snapTimeout.orphans > 0
    /\ snapTimeout' = IF tracked THEN [snapTimeout EXCEPT !.tracked = FALSE]
                      ELSE [snapTimeout EXCEPT !.orphans = @ - 1]
    /\ targetScrollY' = ClampScroll(ItemScroll(CenteredIndex))
    /\ UNCHANGED <<currentScrollY, isDragging, dragStartY, dragStartScroll, lastClick,
                   scrolls>>
    /\ UNCHANGED <<wmVars, ikVars, srvVars, htVars>>

\* The part of the way to the target the ticks cover up to the next position
\* followed: the fraction f of it in whole grid steps, at least one.
TickStep(d, f) ==
    IF d = 0 THEN 0
    ELSE IF d > 0 THEN ScrollGrid * Max(1, (d * f[1]) \div (f[2] * ScrollGrid))
    ELSE -(ScrollGrid * Max(1, ((-d) * f[1]) \div (f[2] * ScrollGrid)))

\* tick(): the scroll position eases towards the target.
Tick(f) ==
    /\ PageReady
    /\ currentScrollY # targetScrollY
    /\ currentScrollY' = currentScrollY + TickStep(targetScrollY - currentScrollY, f)
    /\ UNCHANGED <<targetScrollY, isDragging, dragStartY, dragStartScroll, snapTimeout,
                   lastClick, scrolls>>
    /\ UNCHANGED <<wmVars, ikVars, srvVars, htVars>>

CarNext ==
    \/ \E idx \in WorldIndexes : Click(idx)
    \/ \E deltaY \in WheelDeltas : Wheel(deltaY)
    \/ \E clientY \in PointerYs : PointerDown(clientY)
    \/ \E clientY \in PointerYs : PointerMove(clientY)
    \/ PointerUp
    \/ \E tracked \in BOOLEAN : SnapToNearest(tracked)
    \/ \E f \in TickFractions : Tick(f)

\* ------------------------------------------------------------ hand tracking

\* HandTrackingWorld instances, spheres and hand events of a behaviour.
MaxHandWorlds == 2

MaxSpheres == 2

MaxHandEvents == 5

\* renderer.xr.getHand(0) and getHand(1): the same two objects for every world.
HandIds == {1, 2}

\* e.data.handedness of the device behind each hand.
HandednessOf == <<"left", "right">>

\* The hands before any world listened to them.
HandsInit ==
    [h \in HandIds |->
        [handedness |-> "", selected |-> 0, listeners |-> <<>>, live |-> FALSE,
         pinching |-> FALSE]]

HtInit ==
    /\ hands = HandsInit
    /\ handWorlds = <<>>
    /\ spheres = <<>>
    /\ handErr = 0
    /\ handEvents = 0

\* new HandTrackingWorld().
NewHandWorld ==
    [state |-> "new", spheres |-> <<>>, spawnGroup |-> FALSE, grabbing |-> FALSE,
     scaling |-> [active |-> FALSE, object |-> 0], handLeft |-> 0, handRight |-> 0]

\* The instance that is entered, 0 when there is none.
EnteredHandWorld ==
    IF \E k \in DOMAIN handWorlds : handWorlds[k].state = "entered"
    THEN CHOOSE k \in DOMAIN handWorlds : handWorlds[k].state = "entered"
    ELSE 0

\* A world is made and entered: both hands get its three listeners.
HandWorldEnter ==
    /\ EnteredHandWorld = 0
    /\ Len(handWorlds) < MaxHandWorlds
    /\ handWorlds' = Append(handWorlds,
                            [NewHandWorld EXCEPT !.state = "entered", !.spawnGroup = TRUE])
    /\ hands' = [h \in HandIds |->
                    [hands[h] EXCEPT !.listeners = Append(@, Len(handWorlds) + 1)]]
    /\ handErr' = 0
    /\ UNCHANGED <<spheres, handEvents>>
    /\ UNCHANGED <<ikVars, srvVars, wmVars, carVars>>

\* exit(scene): the spheres are detached and disposed, the list and the
\* flags are reset; the hands keep their userData.
HandWorldExit ==
    /\ EnteredHandWorld # 0
    /\ LET k == EnteredHandWorld
       IN  /\ spheres' = [s \in DOMAIN spheres |->
                             IF \E i \in DOMAIN handWorlds[k].spheres :
                                    handWorlds[k].spheres[i] = s
                             THEN [spheres[s] EXCEPT !.parent = <<"none", 0>>,
                                                     !.disposed = TRUE]
                             ELSE spheres[s]]
           /\ handWorlds' = [handWorlds EXCEPT ![k] =
                                [@ EXCEPT !.state = "exited", !.spheres = <<>>,
                                          !.spawnGroup = FALSE, !.grabbing = FALSE,
                                          !.scaling.active = FALSE]]
    /\ handErr' = 0
    /\ UNCHANGED <<hands, handEvents>>
    /\ UNCHANGED <<ikVars, srvVars, wmVars, carVars>>

\* _collideObject: the first sphere of the instance's list the tip is near.
CollideObject(w, near) ==
    IF \E i \in DOMAIN w.spheres : w.spheres[i] \in near
    THEN w.spheres[CHOOSE i \in DOMAIN w.spheres :
                       /\ w.spheres[i] \in near
                       /\ \A i2 \in 1..(i - 1) : w.spheres[i2] \notin near]
    ELSE 0

\* The state a dispatch works on.
HandState == [hw |-> handWorlds, hs |-> hands, sp |-> spheres, err |-> 0]

\* The 'connected' listener of instance k on hand h.
OnConnected(st, k, h) ==
    [st EXCEPT !.hs[h].handedness = HandednessOf[h],
               !.hw[k].handLeft = IF HandednessOf[h] = "left" THEN h ELSE @,
               !.hw[k].handRight = IF HandednessOf[h] = "right" THEN h ELSE @]

\* _onPinchStart of instance k for hand h, the tip being near the spheres in
\* near.  A left pinch scales the sphere the right hand holds or spawns one;
\* a right pinch grabs the sphere it touches.
OnPinchStart(st, k, h, near) ==
    LET w          == st.hw[k]
        handedness == st.hs[h].handedness
        hit        == CollideObject(w, near)
        rightSel   == IF w.handRight = 0 THEN 0 ELSE st.hs[w.handRight].selected
        id         == Len(st.sp) + 1
    IN  IF handedness = "left"
        THEN IF w.grabbing /\ w.handRight # 0 /\ rightSel # 0 /\ hit = rightSel
             THEN [st EXCEPT !.hw[k].scaling = [active |-> TRUE, object |-> hit]]
             ELSE IF w.spawnGroup
                  THEN [st EXCEPT !.sp = Append(@, [parent |-> <<"spawnGroup", k>>,
                                                     disposed |-> FALSE]),
                                  !.hw[k].spheres = Append(@, id)]
                  ELSE [st EXCEPT !.sp = Append(@, [parent |-> <<"none", 0>>,
                                                     disposed |-> FALSE]),
                                  !.hw[k].spheres = Append(@, id),
                                  !.err = k]
        ELSE IF handedness = "right" /\ hit # 0
             THEN [st EXCEPT !.hw[k].grabbing = TRUE,
                             !.sp[hit].parent = <<"tip", h>>,
                             !.hs[h].selected = hit]
             ELSE st

\* _onPinchEnd of instance k for hand h: the right hand lets go of what it
\* holds, the left hand ends scaling.
OnPinchEnd(st, k, h) ==
    LET w          == st.hw[k]
        handedness == st.hs[h].handedness
        object     == st.hs[h].selected
    IN  IF handedness = "right" /\ object # 0
        THEN IF w.spawnGroup
             THEN [st EXCEPT !.sp[object].parent = <<"spawnGroup", k>>,
                             !.hs[h].selected = 0,
                             !.hw[k].grabbing = FALSE]
             ELSE [st EXCEPT !.err = k]
        ELSE IF handedness = "left"
             THEN [st EXCEPT !.hw[k].scaling.active = FALSE]
             ELSE st

\* One listener of the hand's for an event.
OnEvent(st, type, k, h, near) ==
    IF type = "connected" THEN OnConnected(st, k, h)
    ELSE IF type = "pinchstart" THEN OnPinchStart(st, k, h, near)
    ELSE OnPinchEnd(st, k, h)

\* dispatchEvent: the listeners run in the order they were added; an
\* exception one of them throws ends the dispatch.
RECURSIVE Dispatch(_, _, _, _, _)
Dispatch(st, ls, type, h, near) ==
    IF ls = <<>> \/ st.err # 0 THEN st
    ELSE Dispatch(OnEvent(st, type, Head(ls), h, near), Tail(ls), type, h, near)

\* An event of type on hand h reaches the listeners.
HandEvent(type, h, near, pinching, live) ==
    /\ \E st \in {Dispatch([HandState EXCEPT !.hs[h].pinching = pinching,
                                             !.hs[h].live = live],
                           hands[h].listeners, type, h, near)} :
            /\ handWorlds' = st.hw
            /\ hands' = st.hs
            /\ spheres' = st.sp
            /\ handErr' = st.err
    /\ UNCHANGED <<ikVars, srvVars, wmVars, carVars>>

\* The device behind hand h is connected.
Connected(h) ==
    /\ ~hands[h].live
    /\ handEvents < MaxHandEvents
    /\ handEvents' = handEvents + 1
    /\ HandEvent("connected", h, {}, FALSE, TRUE)

\* The thumb and the index finger of hand h close, the tip being near the
\* spheres in near.
PinchStart(h, near) ==
    /\ hands[h].live
    /\ ~hands[h].pinching
    /\ handEvents < MaxHandEvents
    /\ Len(spheres) < MaxSpheres \/ hands[h].handedness # "left"
    /\ handEvents' = handEvents + 1
    /\ HandEvent("pinchstart", h, near, TRUE, TRUE)

\* The thumb and the index finger of hand h open.
PinchEnd(h) ==
    /\ hands[h].live
    /\ hands[h].pinching
    /\ UNCHANGED handEvents
    /\ HandEvent("pinchend", h, {}, FALSE, TRUE)

HtNext ==
    \/ HandWorldEnter
    \/ HandWorldExit
    \/ \E h \in HandIds : Connected(h)
    \/ \E h \in HandIds, near \in SUBSET (DOMAIN spheres) : PinchStart(h, near)
    \/ \E h \in HandIds : PinchEnd(h)

\* The page with the default count, the carousel and the hands untouched.
AppIdle ==
    /\ WmIdle(NumText(1000))
    /\ CarInit
    /\ HtInit

\* -------------------------------------------------------- specifications

vars == <<ikVars, srvVars, appVars>>

\* The IK arm world alone: no video server runs.
Init ==
    /\ IkInit
    /\ iterations = CCD_ITERATIONS
    /\ fs = [path \in VideoPaths |-> [kind |-> "none", size |-> 0]]
    /\ SrvIdle
    /\ AppIdle

Next == IkNext

Spec == Init /\ [][Next]_vars

\* Frames of a behaviour in which XR sessions come and go.
MaxXrFrames == 3

\* Where the right controller is found in a frame (world space).
HandSet == { <<2000, 12000, -3000>>, <<3000, 11000, -2000>> }

\* A frame in or out of an XR session.
XrFrame(presenting, h) ==
    /\ frames < MaxXrFrames
    /\ UpdateBegin(presenting, h)

\* The arm world on a headset: sessions start and end between frames, the
\* trigger is pulled, the gizmo is dragged while no session runs.
IkNextXR ==
    \/ \E o \in {"ok", "throws"} : Enter(o)
    \/ Exit
    \/ MoveTarget(<<5000, 10000, -8000>>)
    \/ RightSelect
    \/ XrFrame(FALSE, Zero3)
    \/ \E h \in HandSet : XrFrame(TRUE, h)
    \/ IterStart
    \/ JointStep
    \/ Overlay
    \/ Render

NextXR == IkNextXR

SpecXR == Init /\ [][NextXR]_vars

\* The loop bounds the module constant is set to when the solver is tuned:
\* none, one, and the shipped value.
IterationSettings == {0, 1, CCD_ITERATIONS}

\* The IK arm world built with any of the loop bounds.
InitTuned ==
    /\ IkInit
    /\ iterations \in IterationSettings
    /\ fs = [path \in VideoPaths |-> [kind |-> "none", size |-> 0]]
    /\ SrvIdle
    /\ AppIdle

NextTuned == IkNext

SpecTuned == InitTuned /\ [][NextTuned]_vars

\* The video server alone: the arm world stays as constructed.
InitServer == IkInit /\ iterations = CCD_ITERATIONS /\ SrvInit /\ AppIdle

NextServer == SrvNext

SpecServer == InitServer /\ [][NextServer]_vars

\* The arm world and the server as constructed, with no request.
RestIdle ==
    /\ IkInit
    /\ iterations = CCD_ITERATIONS
    /\ fs = [path \in VideoPaths |-> [kind |-> "none", size |-> 0]]
    /\ SrvIdle

\* The world manager and the shape-count controls, for any count the page
\* is loaded with.
InitWorlds == RestIdle /\ WmInit /\ CarInit /\ HtInit

NextWorlds ==
    \/ LoadInitialWorld
    \/ \E index \in WorldIndexes : switches > 0 /\ SwitchWorld(index)
    \/ CycleWorld
    \/ ShapeMinus
    \/ ShapePlus
    \/ SwitchSteps
    \/ RefreshSteps

SpecWorlds == InitWorlds /\ [][NextWorlds]_vars

\* The carousel and the world manager it calls, with worlds whose enter and
\* exit return.
InitCarousel == RestIdle /\ AppIdle

NextCarousel ==
    \/ LoadInitialWorld
    \/ CarNext
    \/ SwitchExit("ok")
    \/ SwitchConstruct
    \/ SwitchEnter("ok")
    \/ SwitchUi

SpecCarousel == InitCarousel /\ [][NextCarousel]_vars

\* Hand-tracking worlds made, entered and exited on the two XR hands.
InitHands == RestIdle /\ AppIdle

NextHands == HtNext

SpecHands == InitHands /\ [][NextHands]_vars

\* ------------------------------------------------------ measures of claims

\* Tolerances of the fixed-point arithmetic: an angle (radians), a distance
\* and a quaternion length are exact to within these.
AngleTol == 3 * (Scale \div 100)

DistTol == Scale \div 100

UnitTol == Scale \div 100

\* The distance under which the tip counts as having reached the target.
DistEps == 2 * (Scale \div 100)

\* For a fixed target, the number of calls after which the claims about
\* repeated calls are read off.
SettleCalls == 3

\* The angle of the rotation that takes orientation a to orientation b.
AngleBetween(a, b) ==
    IF a = b THEN 0
    ELSE LET d == Abs(RDiv(a[1] * b[1] + a[2] * b[2] + a[3] * b[3] + a[4] * b[4], Scale))
             n == MulS(QLength(a), QLength(b))
         IN  2 * AcosFx(Min(Scale, RDiv(d * Scale, n)))

\* The largest rotation one joint visit applies: maxAnglePerStep * damping.
StepMax == RDiv(CCD_MAX_ANGLE * CCD_DAMPING, 100)

\* The root joint's world position, and the chain's length from the root to
\* the tip along base -> link1 -> link2 -> link3 -> link4 -> tip.
RootWorld == WorldPos(quat, stagePos, "base")

TotalChainLength ==
    LocalPos["link1"][2] + LocalPos["link2"][2] + LocalPos["link3"][2]
        + LocalPos["link4"][2] + LocalPos["endEffectorTip"][2]

\* The target lies within three quarters of the arm's reach.
WellWithinReach(t) == 4 * VDistance(t, RootWorld) <= 3 * TotalChainLength

\* The target lies at more than one and a half times the arm's reach.
FarBeyondReach(t) == 2 * VDistance(t, RootWorld) >= 3 * TotalChainLength

\* The calls completed for the current target, and the last distance shown.
RunCalls == Len(run.dists) - 1

RunDist == run.dists[Len(run.dists)]

\* The CCD loop as a function of the pose, the stage position and the target
\* alone, with fresh temporaries: the joints jj.. of one pass, then the
\* passes it.. of one call.
RECURSIVE SolveJoints(_, _, _, _, _)
SolveJoints(q, sp, tgt, ee, jj) ==
    IF jj >= Len(IkJointsEntered) THEN q
    ELSE LET next == CcdJoint(q, sp, tgt, [TmpInit EXCEPT !.eePos = ee],
                              IkJointsEntered[jj + 1]).quat
         IN  IF DOMAIN next = Links
             THEN SolveJoints(next, sp, tgt, ee, jj + 1)
             ELSE next

RECURSIVE SolvePasses(_, _, _, _)
SolvePasses(q, sp, tgt, it) ==
    IF it >= iterations THEN q
    ELSE LET next == SolveJoints(q, sp, tgt, TipWorld(q, sp), 0)
         IN  IF DOMAIN next = Links
             THEN SolvePasses(next, sp, tgt, it + 1)
             ELSE next

\* ------------------------------------------------------------------ claims

\* C1 as stated: after a solve call (all its passes) no joint's orientation
\* differs from its orientation before the call by more than maxAnglePerStep
\* (let alone by more than maxAnglePerStep * damping).
C1_ClampPerCall ==
    call.kind = "solved" =>
        \A n \in Links : AngleBetween(call.quat0[n], quat[n]) <= CCD_MAX_ANGLE + AngleTol

\* C1 amended: the clamp holds per joint visit.  After k visits of a joint in a
\* call its orientation differs from its orientation before the call by at most
\* k * maxAnglePerStep * damping, so over a call by at most
\* iterations * maxAnglePerStep * damping.
C1_ClampPerVisit ==
    \A n \in Links :
        /\ call.turns[n] <= CCD_ITERATIONS
        /\ AngleBetween(call.quat0[n], quat[n]) <= call.turns[n] * StepMax + AngleTol

\* C1 witness: a call has ended in which a joint turned by more than
\* maxAnglePerStep, within the amended bound.
C1_Witness ==
    /\ call.kind = "solved"
    /\ \E n \in Links : AngleBetween(call.quat0[n], quat[n]) > CCD_MAX_ANGLE + AngleTol

\* C2 as stated: from the relaxed pose, for a fixed target well within reach,
\* the tip-to-target distance never increases from one call to the next and is
\* below epsilon after a bounded number of calls.
C2_Convergence ==
    (run.relaxed /\ WellWithinReach(run.target)) =>
        /\ \A i \in 1..(Len(run.dists) - 1) : run.dists[i + 1] <= run.dists[i] + DistTol
        /\ RunCalls >= SettleCalls => RunDist <= DistEps

\* C3: a call that starts with the target exactly on the tip leaves every
\* orientation as it was, as does every further call with that target.
C3_NoOpStable == run.atTip => quat = run.quat

\* C3 witness: two calls have been made with the target on the tip of a bent arm.
C3_Witness ==
    /\ run.atTip
    /\ RunCalls >= 2
    /\ call.kind = "solved"
    /\ run.quat # RelaxedPose

\* The joint whose turn it is, and whether its step is degenerate: the tip
\* as read for this pass, or the target, coincides with the joint.
JointAtTurn == ikJoints[j + 1]

DegenerateTurn ==
    LET p == WorldPos(quat, stagePos, JointAtTurn)
    IN  \/ NearZero(VLength(VSub(tmp.eePos, p)))
        \/ NearZero(VLength(VSub(targetPosition, p)))

\* C4: a joint whose step is degenerate keeps its orientation, no error is
\* raised, and the pass goes on with the next joint.
C4_DegenerateSkipped ==
    [][ (pc = "joint" /\ DegenerateTurn) =>
            /\ quat' = quat
            /\ err' = "none"
            /\ j' = j + 1
            /\ (j + 1 < Len(ikJoints) => pc' = "joint") ]_vars

\* C4 witness: in one pass link1 was skipped because the target lies on it,
\* and the base, next in the pass, was then rotated.
C4_Witness ==
    /\ call.lenSkips > 0
    /\ call.passes = 1
    /\ lastStep.joint = "base"
    /\ lastStep.kind = "applied"

\* C5: a call makes exactly `iterations` passes over all joints, whatever the
\* distance to the target and whatever joints are skipped, and then ends:
\* while it runs its next step is always enabled and its counts are bounded.
C5_FixedWork ==
    /\ call.kind = "solved" =>
          /\ call.passes = CCD_ITERATIONS
          /\ call.visits = CCD_ITERATIONS * Len(IkJointsEntered)
          /\ pc = "idle"
    /\ call.kind = "solving" =>
          /\ pc \in {"iter", "joint", "overlay"}
          /\ pc = "joint" => j < Len(ikJoints)
          /\ iter <= CCD_ITERATIONS
          /\ call.passes <= CCD_ITERATIONS
          /\ call.visits <= CCD_ITERATIONS * Len(IkJointsEntered)

\* C5 witness: a call has ended that started with the tip on the target.
C5_Witness ==
    /\ call.kind = "solved"
    /\ run.atTip
    /\ call.visits = CCD_ITERATIONS * Len(IkJointsEntered)

\* C6: the orientations after a call are a function of the orientations before
\* it and the target: they equal the loop run afresh on that pose and target,
\* whatever the temporaries held from earlier calls.
C6_Deterministic ==
    call.kind = "solved" => quat = SolvePasses(call.quat0, stagePos, call.target, 0)

\* C6 witness: a second or later call has ended that rotated a joint, its
\* temporaries having been used by the calls before it.
C6_Witness ==
    /\ call.kind = "solved"
    /\ frames >= 2
    /\ quat # call.quat0

\* C7 as stated: update() on an instance without joints fails with InvalidChain.
C7_EmptyChainRejected == call.empty => err = "InvalidChain"

\* C7 amended: update() on an instance without joints (enter() threw, or exit()
\* has run) returns without an error and changes nothing.
C7_EmptyChainNoOp ==
    [][ (pc = "idle" /\ Len(ikJoints) = 0 /\ frames' = frames + 1) =>
            /\ err' = "none"
            /\ pc' = "idle"
            /\ UNCHANGED <<phase, ikJoints, quat, stagePos, targetSphere,
                           targetPosition, xr, tmp, iter, j, overlay, moves, run>> ]_vars

\* C7 witness: update() has been called on an instance without joints.
C7_Witness == call.empty /\ call.kind = "noop"

\* C8: no call raises an error, and every joint's orientation stays a unit
\* quaternion.
C8_Total ==
    /\ err = "none"
    /\ \A n \in Links : Abs(QLength(quat[n]) - Scale) <= UnitTol

\* C8 witness: a call on the entered arm has ended in which one joint was
\* skipped as degenerate and another was rotated.
C8_Witness ==
    /\ call.kind = "solved"
    /\ call.lenSkips > 0
    /\ quat # call.quat0

\* C9 as stated: for a fixed target far beyond reach the distance settles at
\* |target - root| - totalChainLength.
C9_ApproachesExtended ==
    (FarBeyondReach(run.target) /\ RunCalls >= SettleCalls) =>
        Abs(RunDist - (VDistance(run.target, RootWorld) - TotalChainLength)) <= 10 * DistTol

\* C10: every response the video server writes (200, 206, 204, 404, 405, 416,
\* 500, 503) carries each CORS header with its value.
C10_CorsOnEveryResponse ==
    \A i \in DOMAIN responses : \A k \in DOMAIN responses[i] :
        LET res == responses[i][k]
        IN  /\ res.status \in {200, 206, 204, 404, 405, 416, 500, 503}
            /\ \A h \in DOMAIN CORS_HEADERS :
                   /\ h \in DOMAIN res.headers
                   /\ res.headers[h] = CORS_HEADERS[h]

\* C10 witness: a partial-content response and an error response written after
\* the fs.stat callback have both been sent.
C10_Witness ==
    /\ \E i \in DOMAIN responses : \E k \in DOMAIN responses[i] :
           responses[i][k].status = 206 /\ responses[i][k].body.kind = "stream"
    /\ \E i \in DOMAIN responses : \E k \in DOMAIN responses[i] :
           responses[i][k].status \in {416, 500}

\* C11 as stated: at every joint's turn the end-effector position the loop
\* uses for currentDir (_eePos) is the tip's world position at that moment,
\* rotations applied earlier in the same pass included.
C11_EePosFreshPerJoint ==
    (pc = "joint" /\ j < Len(ikJoints)) => tmp.eePos = TipWorld(quat, stagePos)

\* The cross product, in fixed point.
VCross(a, b) ==
    << MulS(a[2], b[3]) - MulS(a[3], b[2]),
       MulS(a[3], b[1]) - MulS(a[1], b[3]),
       MulS(a[1], b[2]) - MulS(a[2], b[1]) >>

\* After a joint visit: the shortest-arc rotation from the visit's currentDir
\* to its desiredDir (both left normalised in the temporaries), its angle and
\* its axis.
ShortestArc == SetFromUnitVectors(tmp.currentDir, tmp.desiredDir)

ShortestArcAngle == 2 * AcosFx(Min(Scale, Abs(ShortestArc[4])))

ShortestArcAxis == VNormalize(<<ShortestArc[1], ShortestArc[2], ShortestArc[3]>>)

\* C12: the rotation a joint visit applies has an angle of at most
\* min(shortest-arc angle, maxAnglePerStep) * damping, the joint's orientation
\* moves by no more than that, and the rotation is about the axis of the
\* shortest arc from currentDir to desiredDir.
C12_PerStepClamp ==
    lastStep.kind = "applied" =>
        /\ lastStep.angle <= RDiv(Min(ShortestArcAngle, CCD_MAX_ANGLE) * CCD_DAMPING, 100)
        /\ AngleBetween(lastStep.before, quat[lastStep.joint]) <= lastStep.angle + AngleTol
        /\ VLength(VCross(tmp.axis, ShortestArcAxis)) <= UnitTol
        /\ VDot(tmp.axis, ShortestArcAxis) > 0
        /\ VLength(VCross(<<tmp.deltaQ[1], tmp.deltaQ[2], tmp.deltaQ[3]>>, ShortestArcAxis)) <= UnitTol

\* C12 witness: a visit has turned a joint whose shortest arc was wider than
\* maxAnglePerStep, by maxAnglePerStep * damping.
C12_Witness ==
    /\ lastStep.kind = "applied"
    /\ ShortestArcAngle > CCD_MAX_ANGLE
    /\ lastStep.angle = StepMax
    /\ lastStep.before # quat[lastStep.joint]

\* C13: in every pass the joints are visited once each, in the reverse of the
\* order of construction: first the joint next to the end-effector segment,
\* last the base.  The end-effector segment is never turned, and the list of
\* joints and the parent links are the same in every pass of every call.
C13_TraversalOrder ==
    /\ lastStep.kind # "none" =>
           lastStep.joint = ConstructionOrder[Len(ConstructionOrder) - 1 - lastStep.at]
    /\ pc = "joint" =>
           /\ call.visits = (call.passes - 1) * Len(ikJoints) + j
           /\ \A k \in 1..Len(ikJoints) :
                  call.turns[ikJoints[k]] = IF k <= j THEN call.passes ELSE call.passes - 1
    /\ (phase = "entered" /\ (pc \in {"iter", "overlay"} \/ call.kind = "solved")) =>
           /\ call.visits = call.passes * Len(ikJoints)
           /\ \A k \in 1..Len(ikJoints) : call.turns[ikJoints[k]] = call.passes
    /\ call.turns["link4"] = 0
    /\ quat["link4"] = QIdent
    /\ phase = "entered" =>
           /\ ikJoints = <<"link3", "link2", "link1", "base">>
           /\ parent = Parent

\* C13 witness: the second pass of a call has come to its last joint, the
\* base, after link3, link2 and link1.
C13_Witness ==
    /\ call.passes = 2
    /\ pc = "iter"
    /\ lastStep.joint = "base"
    /\ lastStep.at = 3
    /\ call.visits = 8

\* C14: a joint that is turned gets the orientation correction * old
\* orientation, the correction being the clamped and damped rotation left in
\* _deltaQ.
C14_PremultipliedCorrection ==
    lastStep.kind = "applied" =>
        quat[lastStep.joint] = QMul(tmp.deltaQ, lastStep.before)

\* C14 witness: a joint has been turned for which the two orders of
\* composition give different orientations.
C14_Witness ==
    /\ lastStep.kind = "applied"
    /\ quat[lastStep.joint] = QMul(tmp.deltaQ, lastStep.before)
    /\ QMul(tmp.deltaQ, lastStep.before) # QMul(lastStep.before, tmp.deltaQ)

\* C15: at the start of every pass of a call the end-effector position the
\* loop has read (_eePos) is the tip's world position under the orientations
\* as they are then, the rotations of the earlier passes included.
C15_EePosFreshPerPass ==
    (pc = "joint" /\ j = 0) => tmp.eePos = TipWorld(quat, stagePos)

\* C15 witness: a later pass of a call starts after earlier passes have
\* turned joints and moved the tip.
C15_Witness ==
    /\ pc = "joint"
    /\ j = 0
    /\ call.passes >= 2
    /\ quat # call.quat0
    /\ TipWorld(quat, stagePos) # TipWorld(call.quat0, stagePos)
    /\ tmp.eePos = TipWorld(quat, stagePos)

\* After a joint visit, the skip conditions of that visit read off the
\* temporaries: a direction of near-zero length (the directions are left
\* unnormalised by that skip), a negligible clamped and damped angle, a
\* shortest arc whose axis has near-zero length; and directions that point
\* opposite ways.
VisitLenNearZero ==
    NearZero(VLength(tmp.currentDir)) \/ NearZero(VLength(tmp.desiredDir))

VisitAngleNegligible ==
    /\ ~VisitLenNearZero
    /\ NearZero(RDiv(Min(ShortestArcAngle, CCD_MAX_ANGLE) * CCD_DAMPING, 100))

VisitAxisNearZero ==
    /\ ~VisitLenNearZero
    /\ NearZero(VLength(<<ShortestArc[1], ShortestArc[2], ShortestArc[3]>>))

VisitAntiparallel ==
    /\ ~VisitLenNearZero
    /\ VDot(tmp.currentDir, tmp.desiredDir) <= UnitTol - Scale

\* C16 as stated: a visit with a negligible angle, a near-zero axis or
\* near-antiparallel directions leaves the joint's orientation as it was, and
\* an orientation changes only when no skip condition holds.
C16_EdgeCasesSkipped ==
    lastStep.kind # "none" =>
        /\ (VisitLenNearZero \/ VisitAngleNegligible \/ VisitAxisNearZero \/ VisitAntiparallel)
               => quat[lastStep.joint] = lastStep.before
        /\ quat[lastStep.joint] # lastStep.before
               => ~(VisitLenNearZero \/ VisitAngleNegligible \/ VisitAxisNearZero)

\* C16 amended: a visit with a near-zero direction, a negligible angle or a
\* near-zero axis is a skip that leaves the joint's orientation exactly as it
\* was, and a joint is turned only when none of the three holds.  Opposite
\* directions are not a skip: the shortest arc is then a half turn about an
\* axis perpendicular to currentDir, and the joint is turned about it by
\* maxAnglePerStep * damping.
C16_SkipsExplicit ==
    lastStep.kind # "none" =>
        /\ (VisitLenNearZero \/ VisitAngleNegligible \/ VisitAxisNearZero)
               => quat[lastStep.joint] = lastStep.before
        /\ lastStep.kind = "applied"
               <=> ~(VisitLenNearZero \/ VisitAngleNegligible \/ VisitAxisNearZero)
        /\ quat[lastStep.joint] # lastStep.before => lastStep.kind = "applied"
        /\ VisitAntiparallel =>
               /\ lastStep.kind = "applied"
               /\ lastStep.angle = StepMax
               /\ quat[lastStep.joint] # lastStep.before
               /\ Abs(VDot(tmp.axis, tmp.currentDir)) <= UnitTol

\* C16 witness: a visit has skipped a joint for a negligible angle, its
\* directions being neither of near-zero length nor opposite.
C16_Witness ==
    /\ lastStep.kind = "skipAngle"
    /\ VisitAngleNegligible
    /\ ~VisitAntiparallel
    /\ quat[lastStep.joint] = lastStep.before

\* C17: whatever calls of update() have run, every node's local position,
\* its parent, the list of joints and the tip's offset on the end-effector
\* segment are as enter() made them; and a step of the CCD loop writes, of
\* the arm, orientations only.
C17_SolveFrame ==
    /\ localPos = LocalPos
    /\ parent = Parent
    /\ phase = "entered" => ikJoints = <<"link3", "link2", "link1", "base">>
    /\ localPos["endEffectorTip"] = <<0, LINK4_SIZE[2] \div 2, 0>>
    /\ pc # "idle" => phase = "entered"

\* C17 witness: two calls have run and turned joints.
C17_Witness ==
    /\ frames >= 2
    /\ call.kind = "solved"
    /\ \E n \in Links : quat[n] # RelaxedPose[n] /\ localPos[n] = LocalPos[n] /\ LocalPos[n] # Zero3
    /\ parent = Parent

\* C18: from the sample at the top of update() to the end of the call the
\* target point (this.targetPosition) keeps the sampled value and the target
\* sphere stays where it was sampled; every joint visit of the call aims at
\* that value.
C18_TargetReadOnly ==
    /\ pc # "idle" =>
           /\ targetPosition = call.target
           /\ targetPosition = VAdd(stagePos, targetSphere)
    /\ (pc # "idle" /\ lastStep.kind = "skipLen") =>
           tmp.desiredDir = VSub(call.target, tmp.jointPos)
    /\ (pc # "idle" /\ lastStep.kind \in {"skipAngle", "skipAxis", "applied"}) =>
           tmp.desiredDir = VNormalize(VSub(call.target, tmp.jointPos))

\* C18 witness: a call that sampled a target the user had moved is in its
\* second pass or later, a joint just visited.
C18_Witness ==
    /\ pc = "joint"
    /\ j >= 1
    /\ call.passes >= 2
    /\ lastStep.kind = "applied"
    /\ call.target # DefaultTarget
    /\ targetPosition = call.target

\* C19: with the loop bound at zero a call of update() on an entered instance
\* makes no pass and visits no joint, raises nothing, leaves every orientation
\* as it was and returns after the overlay readout.
C19_ZeroIterationsNoOp ==
    (iterations = 0 /\ call.kind \in {"solving", "solved"}) =>
        /\ quat = call.quat0
        /\ err = "none"
        /\ call.passes = 0
        /\ call.visits = 0
        /\ pc \in {"iter", "overlay", "idle"}

\* C19 witness: with the loop bound at zero a call has returned, the target
\* away from the tip.
C19_Witness ==
    /\ iterations = 0
    /\ call.kind = "solved"
    /\ pc = "idle"
    /\ err = "none"
    /\ overlay > DistEps
    /\ quat = call.quat0

\* C20: in every frame the orientations are written by the steps of the CCD
\* loop only, the loop runs before that frame's renderer.render(), and the
\* renderer reads the scene only after update() has returned: what it reads
\* are the orientations after the last pass of the frame's call, never those
\* of the middle of a call.
C20_ProducerThenConsumer ==
    /\ [][quat' # quat => (pc = "joint" /\ toRender /\ UNCHANGED shown)]_vars
    /\ [](/\ shown.pc = "idle"
          /\ shown.kind \in {"none", "noop", "solved"}
          /\ shown.kind = "solved" => shown.passes = iterations
          /\ pc # "idle" => toRender
          /\ pc = "overlay" => call.passes = iterations
          /\ (~toRender /\ shown.frame = frames) => shown.quat = quat)

\* C20 witness: the renderer has drawn the second frame or a later one after
\* a call that turned joints.
C20_Witness ==
    /\ ~toRender
    /\ shown.frame >= 2
    /\ shown.frame = frames
    /\ shown.kind = "solved"
    /\ shown.passes = CCD_ITERATIONS
    /\ shown.quat = quat
    /\ quat # call.quat0

\* C25 as stated: every 206 the video server writes, for a file of any size
\* from 0 up, has 0 <= start <= end <= total - 1, Content-Length
\* end - start + 1, Content-Range "bytes start-end/total", and a body that
\* streams the bytes start..end.
C25_RangeBounds ==
    \A i \in DOMAIN responses : \A k \in DOMAIN responses[i] :
        LET res == responses[i][k]
        IN  res.status = 206 =>
                LET cr    == res.headers["Content-Range"]
                    start == cr[1]
                    end   == cr[2]
                    total == cr[3]
                IN  /\ 0 <= start
                    /\ start <= end
                    /\ end <= total - 1
                    /\ res.headers["Content-Length"] = end - start + 1
                    /\ res.body = StreamBody(start, end)

\* The response the fixed precedence prescribes: for a request as it arrives
\* (0: the file has to be looked at first), and for a request whose file has
\* been looked at.  An empty Range header counts as none, the query string is
\* cut off as the handler cuts it off.
RoutedOnArrival(method, url, f) ==
    IF method = "OPTIONS" THEN 204
    ELSE IF method # "GET" THEN 405
    ELSE IF UrlPath(url) \notin {RootUrl, VideoUrl} THEN 404
    ELSE IF getVideoPath(f) = "null" THEN 503
    ELSE 0

RoutedOnStat(range, stat) ==
    IF stat.kind # "file" THEN 500
    ELSE IF ~range.present \/ range.text = <<>> THEN 200
    ELSE IF ~RangeMatch(range.text).ok THEN 416
    ELSE 206

\* C26 as stated: every request receives exactly one response, and the
\* response is the one the precedence prescribes: 204, 405, 404, 503 as the
\* request arrives, 500, 416, 200 or 206 once the file has been looked at.
C26_Routing ==
    /\ [][\A m \in Methods, u \in Urls, r \in RangeHeaders :
              Request(m, u, r) =>
                  LET id   == Len(responses) + 1
                      want == RoutedOnArrival(m, u, fs)
                  IN  IF want = 0
                      THEN responses'[id] = <<>> /\ (\E p \in pending' : p.id = id)
                      ELSE /\ Len(responses'[id]) = 1
                           /\ responses'[id][1].status = want]_vars
    /\ [][\A p \in pending :
              StatCallback(p) =>
                  /\ Len(responses'[p.id]) = 1
                  /\ responses'[p.id][1].status = RoutedOnStat(p.range, fs[p.filePath])
                  /\ responses'[p.id][1].body.kind # "aborted"]_vars
    /\ [](\A i \in DOMAIN responses :
              /\ Len(responses[i]) <= 1
              /\ (\A p \in pending : p.id # i) => Len(responses[i]) = 1
              /\ crashed => Len(responses[i]) = 1)

\* The neutral target of XR teleoperation, in world space.
XrNeutral == VAdd(XR_STAGE_OFFSET, XR_NEUTRAL_TARGET_STAGE)

\* The last frame of the entered world ran in an XR session: it left the stage
\* at XR_STAGE_OFFSET, where enter() and a frame without XR leave it at 0.
LastFramePresenting == stagePos = XR_STAGE_OFFSET

\* C24: the first presenting frame after enter() or after a frame without XR
\* puts the target on the neutral target and remembers the hand where it is;
\* every presenting frame that follows a presenting frame moves the target by
\* HAND_DELTA_SCALE times the hand's displacement since that frame; a frame
\* without XR leaves the XR target alone.  So the hand's way while no session
\* ran never reaches the target.
C24_XrReanchor ==
    /\ [][\A h \in HandSet :
              (phase = "entered" /\ XrFrame(TRUE, h)) =>
                  /\ xr'.handPosPrev = h
                  /\ targetPosition' = xr'.targetWorld
                  /\ IF ~LastFramePresenting
                     THEN xr'.targetWorld = XrNeutral
                     ELSE \A k \in 1..3 :
                              Abs(10 * (xr'.targetWorld[k] - xr.targetWorld[k])
                                    - HAND_DELTA_SCALE * (h[k] - xr.handPosPrev[k])) <= 5]_vars
    /\ [][(phase = "entered" /\ XrFrame(FALSE, Zero3)) =>
              /\ xr'.targetWorld = xr.targetWorld
              /\ targetSphere' = targetSphere
              /\ ~LastFramePresenting']_vars

\* C24 witness: a presenting frame that followed a presenting frame has moved
\* the target off the neutral target by the scaled displacement of the hand.
C24_Witness ==
    /\ phase = "entered"
    /\ LastFramePresenting
    /\ ~xr.firstFrame
    /\ frames >= 2
    /\ xr.targetWorld # XrNeutral
    /\ targetPosition = xr.targetWorld
    /\ tmp.currentDir # Zero3
    /\ pc = "iter" /\ iter = 0

\* C21: a frame that runs the CCD loop first takes the target from the source
\* in use, the sphere where the gizmo left it on the desktop, the hand-driven
\* XR target in a session, and does so once: from the first pass to the end
\* of the frame's call the target stays as taken.
C21_TargetRefreshedOncePerFrame ==
    /\ [](pc # "idle" =>
              /\ targetPosition = VAdd(stagePos, targetSphere)
              /\ LastFramePresenting => targetPosition = xr.targetWorld
              /\ ~LastFramePresenting => targetPosition = targetSphere)
    /\ [][pc # "idle" => UNCHANGED <<targetPosition, targetSphere, stagePos>>]_vars
    /\ [][(pc = "idle" /\ pc' # "idle") =>
              /\ pc' = "iter" /\ iter' = 0 /\ call'.passes = 0
              /\ call'.target = targetPosition'
              /\ frames' = frames + 1]_vars

\* C21 witness: a frame is about to make its first pass with a target taken
\* from the gizmo-dragged sphere, another than the one of the frame before.
C21_Witness ==
    /\ pc = "iter"
    /\ iter = 0
    /\ frames >= 2
    /\ ~LastFramePresenting
    /\ targetPosition = <<5000, 10000, -8000>>
    /\ targetPosition = targetSphere
    /\ run.dists = <<VDistance(TipWorld(quat, stagePos), targetPosition)>>

\* The world instances that have received enter and no exit since.
EnteredWorlds == {k \in DOMAIN worlds : worlds[k].in}

\* C22: a switchWorld call invokes exit on the current world, if there is
\* one, before it makes and enters the new one.  So at most one instance is
\* in the entered state at any time, and it is the current one; the instance
\* being made finds the one before it exited; and enter is only ever received
\* by the instance that is current, never by one that was replaced.
C22_SwitchOrdering ==
    /\ [](/\ Cardinality(EnteredWorlds) <= 1
          /\ EnteredWorlds \subseteq {currentWorld})
    /\ [][Len(worlds') > Len(worlds) =>
            /\ worlds'[Len(worlds')].enters = 0
            /\ currentWorld # 0 =>
                    /\ ~worlds[currentWorld].in
                    /\ worlds[currentWorld].exits > 0]_vars
    /\ [][\A k \in DOMAIN worlds :
            worlds'[k].enters > worlds[k].enters =>
                k = currentWorld /\ k = Len(worlds)]_vars

\* C22 witness: a second world was made and entered after the first one
\* received exit, and the call has returned.
C22_Witness ==
    /\ plan = <<>>
    /\ Len(worlds) >= 2
    /\ worlds[1].exits > 0 /\ ~worlds[1].in
    /\ currentWorld = 2 /\ worlds[2].in

\* C23: whatever exit of the old world and enter of the new world do, a
\* switchWorld call with an index in range runs all its steps and returns
\* with currentWorldIndex the index asked for and currentWorld the instance
\* it made (of the class at that index); no exception reaches the caller.
C23_SwitchContainsErrors ==
    /\ [](/\ thrown = "none"
          /\ arg \in WorldIndexes
          /\ (plan = <<>> /\ switches > 0) =>
                /\ currentWorldIndex = arg
                /\ Len(worlds) = switches
                /\ currentWorld = Len(worlds)
                /\ worlds[currentWorld].cls = arg)
    /\ [][(plan # <<>> /\ plan' = <<>>) =>
            Len(plan) = 1 \/ Head(plan) = "refreshExit"]_vars

\* C23 witness: a switch has returned in which the old world's exit threw
\* and the new world's enter threw.
C23_Witness ==
    /\ plan = <<>>
    /\ Len(worlds) >= 2
    /\ "exit" \in worlds[1].failed
    /\ currentWorld = 2 /\ "enter" \in worlds[2].failed
    /\ currentWorldIndex = worlds[2].cls

\* The scroll positions the centred index is computed for.
ScrollSpan == 600

\* C29: a click on a carousel button calls switchWorld, with that button's
\* index, exactly when the button is the centred one; the centred index lies
\* in [0, number of worlds - 1] for every scroll position, and switchWorld is
\* never called with an index out of range.
C29_CarouselGating ==
    /\ [](/\ CenteredIndex \in WorldIndexes
          /\ \A y \in (-ScrollSpan)..ScrollSpan : CenteredIndexAt(y) \in WorldIndexes
          /\ arg \in WorldIndexes)
    /\ [][\A idx \in WorldIndexes :
            Click(idx) =>
                ((switches' = switches + 1 /\ arg' = idx) <=> CenteredIndex = idx)]_vars
    /\ [][(switches > 0 /\ switches' > switches) =>
            (arg' = CenteredIndex /\ lastClick'.idx = arg' /\ lastClick'.switched)]_vars

\* C29 witness: the carousel was scrolled to another world, its button was
\* clicked while centred, and the manager switched to it.
C29_Witness ==
    /\ plan = <<>>
    /\ lastClick.switched
    /\ lastClick.idx > 0
    /\ currentWorldIndex = lastClick.idx
    /\ CenteredIndex = lastClick.idx

\* The count #shape-count-value shows.
ShownCount == ParseIntText(shapeText)

C27_ListenersEndWithWorld ==
    \A k \in DOMAIN handWorlds :
        handWorlds[k].state = "exited" =>
            /\ handWorlds[k].spheres = <<>>
            /\ ~handWorlds[k].grabbing
            /\ ~handWorlds[k].scaling.active
            /\ handErr # k

\* The hands that are right hands and hold a sphere.
RightHolding ==
    {h \in HandIds : hands[h].handedness = "right" /\ hands[h].selected # 0}

\* C28 as stated: the world made last is grabbing exactly when the right hand
\* has a selected sphere, and a selected sphere is in that world's sphere
\* list and not disposed.
C28_GrabConsistent ==
    handWorlds # <<>> =>
        LET w == handWorlds[Len(handWorlds)]
        IN  /\ w.grabbing <=> RightHolding # {}
            /\ \A h \in HandIds :
                    hands[h].selected # 0 =>
                        /\ \E i \in DOMAIN w.spheres : w.spheres[i] = hands[h].selected
                        /\ ~spheres[hands[h].selected].disposed

====
